---- MODULE Spec2Model ----
(***************************************************************************)
(* Relay server (server3.py) and peer network adapter (clientv3.py) of the *)
(* LAN collaboration suite, as a state machine.                            *)
(*                                                                         *)
(* One thread per control connection (Server.handle_client_tcp), one media *)
(* relay thread (Server.handle_udp_packets), one registry (Server.clients) *)
(* guarded by one non-reentrant lock (Server.clients_lock).                *)
(* Identities are held as their UTF-8 bytes (tuples of 0..255).            *)
(***************************************************************************)
EXTENDS Integers, Sequences, FiniteSets, TLC

(* ---------------------------------------------------------------- bounds *)

\* number of control connections the accept loop hands out
NConn == 3

\* number of framed control messages the peers send altogether
MaxFrames == 1

\* number of datagrams the media socket receives altogether
MaxDgrams == 1

(* ------------------------------------------------------------- constants *)

CHAT == 1
FILE_NOTIFY == 2
FILE_REQUEST == 3
FILE_CHUNK == 4
SCREEN_START == 5
SCREEN_IMAGE == 6
SCREEN_STOP == 7
USER_JOIN == 8
USER_LEAVE == 9
VIDEO_STREAM == 10
AUDIO_STREAM == 11
UDP_REGISTER == 12

\* the members of the MessageType enumeration
MessageType == CHAT..UDP_REGISTER

Conns == 1..NConn

\* lock owners: a connection thread, the media relay thread, or nobody
Free == 0
UdpThread == NConn + 1

\* an absent value (Python None, or an absent "user" key)
None == <<>>

\* "alice", and the bytes of '_' and of the blank
Alice == <<97, 108, 105, 99, 101>>
Underscore == <<95>>
Blank == <<32>>

\* the IP address of the host a control connection comes from (tcp_addr[0]):
\* the first two connections share a host, the others come from a second one
ClientIp(c) == IF c <= 2 THEN 1 ELSE 2

\* the UDP ports a peer may announce, or a datagram may come from
Ports == {1, 2}

\* the media addresses (ip, port) of the model
Addrs == {<<ClientIp(c), p>> : c \in Conns, p \in Ports}

(* ----------------------------------------------------------- pure helpers *)

RECURSIVE Digits(_)
\* str(n) for n >= 0, as bytes
Digits(n) == IF n < 10 THEN <<48 + n>> ELSE Digits(n \div 10) \o <<48 + (n % 10)>>

\* bytes.strip() removes these
IsSpace(b) == b \in {9, 10, 11, 12, 13, 32}

RECURSIVE LStrip(_)
LStrip(s) == IF s # <<>> /\ IsSpace(Head(s)) THEN LStrip(Tail(s)) ELSE s

RECURSIVE RStrip(_)
RStrip(s) ==
    IF s # <<>> /\ IsSpace(s[Len(s)]) THEN RStrip(SubSeq(s, 1, Len(s) - 1)) ELSE s

\* a read that keeps the blanks around the name
StripKept(s) == s

\* recv(1024).decode().strip()
Strip(s) == RStrip(LStrip(s))

\* bytes.decode() returns: the names of the model are ASCII, and a byte
\* above 127 that stands alone is no UTF-8, so that decode raises
\* UnicodeDecodeError
Decodes(s) == \A i \in 1..Len(s) : s[i] < 128

\* struct.pack('!I', n)
U32BE(n) ==
    <<(n \div 16777216) % 256, (n \div 65536) % 256, (n \div 256) % 256, n % 256>>

\* struct.unpack('!I', b)[0], for four bytes
FromU32BE(b) == b[1] * 16777216 + b[2] * 65536 + b[3] * 256 + b[4]

\* the Python slice s[a:b] for 0 <= a <= b
Slice(s, a, b) == SubSeq(s, a + 1, IF b < Len(s) THEN b ELSE Len(s))

\* the keys of the registry, in insertion order
Keys(d) == {d[i].name : i \in 1..Len(d)}

\* username in self.clients
InDict(d, k) == k \in Keys(d)

\* self.clients[k]
Lookup(d, k) == d[CHOOSE i \in 1..Len(d) : d[i].name = k]

\* self.clients[k] = v : replaces the value of an existing key in place,
\* appends a new key at the end
DictSet(d, k, v) ==
    IF InDict(d, k)
    THEN [i \in 1..Len(d) |-> IF d[i].name = k THEN v ELSE d[i]]
    ELSE Append(d, v)

\* a deletion that empties the dict
DictDelAll(d, k) == <<>>

\* a deletion that leaves the key in
DictDelKept(d, k) == d

\* del self.clients[k]
DictDel(d, k) == SelectSeq(d, LAMBDA e : e.name # k)

RECURSIVE UniqueLoopChained(_, _, _, _)
\* the loop with the suffix appended to the name tried last
UniqueLoopChained(d, original, username, counter) ==
    IF InDict(d, username)
    THEN UniqueLoopChained(d, original, username \o Underscore \o Digits(counter),
                           counter + 1)
    ELSE username

RECURSIVE UniqueLoop(_, _, _, _)
\* while username in self.clients: username = f"{original}_{counter}"; counter += 1
UniqueLoop(d, original, username, counter) ==
    IF InDict(d, username)
    THEN UniqueLoop(d, original, original \o Underscore \o Digits(counter), counter + 1)
    ELSE username

\* registration that takes the candidate as it comes
UniqueNameUnchecked(d, original) == original

\* the confirmed identity registration gives a candidate
UniqueName(d, original) == UniqueLoop(d, original, original, 1)

(* ------------------------------------------------------------------ state *)

VARIABLES
    pc,         \* where each connection's handler thread stands
    hello,      \* the first bytes of the connection, until the handler reads them
    username,   \* the handler's local variable username
    clients,    \* Server.clients, a dict in insertion order
    lock,       \* the holder of Server.clients_lock
    bc,         \* the handler's call of broadcast_tcp, running or last
    wire,       \* frames the peer has written that the handler has not read
    inbox,      \* what the server has written to a connection whose peer is there
    peerGone,   \* the peer has closed its end of the connection
    stalled,    \* the peer reads nothing and its receive window is full
    rd,         \* how much of inbox the peer has read
    ident,      \* Client.username, the identity the peer adopted
    chatLog,    \* the chat lines the peer's GUI shows
    nsent,      \* framed control messages the peers have sent
    upc,        \* where the media relay thread stands
    dgram,      \* the datagram the relay is working on
    usender,    \* the relay's local variable sender_username
    utodo,      \* registry entries the relay loop has still to visit
    udpOut,     \* the datagrams the relay has sent for dgram, in order
    ndgram,     \* datagrams the media socket has received
    mediaIn,    \* what the peers' media receive loops have decoded of them
    sent,       \* the frames a sender has packed and written, as (kind, payload)
    stream,     \* the bytes of them that the receive loop has not yet received
    buffer,     \* the receive loop's local variable buffer
    got,        \* the (kind, payload) pairs the loop has taken off its buffer
    looping,    \* the receive loop has not been left
    incoming_files_meta,    \* GUI.incoming_files_meta, by filename
    file_chunks,            \* GUI.file_chunks, by filename
    file_rows,              \* the state of the download button of GUI.file_rows
    saved       \* what the call of download_file under way did, by filename

vars == <<pc, hello, username, clients, lock, bc, wire, inbox, peerGone, stalled,
          rd, ident, chatLog, nsent, upc, dgram, usender, utodo, udpOut, ndgram,
          mediaIn, sent, stream, buffer, got, looping, incoming_files_meta,
          file_chunks, file_rows, saved>>

connVars == <<pc, hello, username, clients, lock, bc, wire, inbox>>
peerVars == <<peerGone, stalled, rd, ident, chatLog, nsent>>
udpVars == <<upc, dgram, usender, utodo, udpOut, ndgram, mediaIn>>
codecVars == <<sent, stream, buffer, got, looping>>
fileVars == <<incoming_files_meta, file_chunks, file_rows, saved>>

\* a JSON payload that is a map, with its "user" key and one more value
Payload(u, v) == [json |-> TRUE, map |-> TRUE, user |-> u, val |-> v]

\* bytes that json.loads rejects
BadPayload == [json |-> FALSE, map |-> FALSE, user |-> None, val |-> 0]

\* JSON that is no map: a list, a string, a number, true, false or null
NotAMap == [json |-> TRUE, map |-> FALSE, user |-> None, val |-> 0]

\* pack_message(msg_type, payload), kept structured
Frame(k, p) == [raw |-> FALSE, kind |-> k, payload |-> p]

\* username.encode(), written to the socket without framing
RawIdentity(u) == [raw |-> TRUE, kind |-> 0, payload |-> Payload(u, 0)]

\* the value of self.clients[username] at registration
Session(u, c) == [name |-> u, tcp |-> c, udp_addr |-> None, tcp_addr |-> <<ClientIp(c), c>>]

\* no call of broadcast_tcp yet
NoBroadcast ==
    [kind |-> 0, payload |-> BadPayload, excl |-> None, cont |-> "none",
     snap |-> <<>>, next |-> 1, out |-> <<>>]

\* a call of broadcast_tcp that always returns into the message loop
CallBackToLoop(k, p, x, cont) ==
    [kind |-> k, payload |-> p, excl |-> x, cont |-> "loop", snap |-> <<>>, next |-> 1,
     out |-> <<>>]

\* the arguments of a call of broadcast_tcp, before it has the lock
Call(k, p, x, cont) ==
    [kind |-> k, payload |-> p, excl |-> x, cont |-> cont, snap |-> <<>>, next |-> 1,
     out |-> <<>>]

\* the first bytes a peer may write: a name, a name that is taken once
\* suffixed, blanks only, or nothing before it closes
Candidates == {Alice, Alice \o Underscore \o Digits(1), Blank, <<>>}

\* the names of the files shared in the model: transfers are kept by
\* filename, and one filename shows all that happens to a transfer
Filenames == {"a.txt"}

\* no entry for a filename in incoming_files_meta
NoMeta == [there |-> FALSE, sender |-> None, size |-> 0, received |-> 0]

\* no call of download_file is under way for a filename
NotSaved == [did |-> "nothing", data |-> <<>>]

\* no frame has been packed, and the receive loop starts with an empty
\* buffer
CodecIdle ==
    sent = <<>> /\ stream = <<>> /\ buffer = <<>> /\ got = <<>> /\ looping = TRUE

\* no row for a filename in file_rows; stale says that the panel still
\* shows an earlier row of the filename whose download button is enabled
NoRow == [button |-> "none", stale |-> FALSE]

\* the file panel of a GUI that has been told of no file
NoFiles ==
    /\ incoming_files_meta = [f \in Filenames |-> NoMeta]
    /\ file_chunks = [f \in Filenames |-> <<>>]
    /\ file_rows = [f \in Filenames |-> NoRow]
    /\ saved = [f \in Filenames |-> NotSaved]

\* a with block that does not wait for the holder of the lock
AcquirableHeld(l) == TRUE

\* with self.clients_lock: the block is entered once nobody holds the lock
Acquirable(l) == l = Free

Init ==
    /\ pc = [c \in Conns |-> "idle"]
    /\ hello = [c \in Conns |-> <<>>]
    /\ username = [c \in Conns |-> None]
    /\ clients = <<>>
    /\ lock = Free
    /\ bc = [c \in Conns |-> NoBroadcast]
    /\ wire = [c \in Conns |-> <<>>]
    /\ inbox = [c \in Conns |-> <<>>]
    /\ peerGone = [c \in Conns |-> FALSE]
    /\ stalled = [c \in Conns |-> FALSE]
    /\ rd = [c \in Conns |-> 0]
    /\ ident = [c \in Conns |-> None]
    /\ chatLog = [c \in Conns |-> <<>>]
    /\ nsent = 0
    /\ upc = "recv"
    /\ dgram = [addr |-> <<0, 0>>, data |-> <<>>]
    /\ usender = None
    /\ utodo = <<>>
    /\ udpOut = <<>>
    /\ ndgram = 0
    /\ mediaIn = {}
    /\ CodecIdle
    /\ NoFiles

(* --------------------------------------------- control connection handler *)

\* Client.__init__ connects and writes its name; handle_tcp_connections
\* accepts and starts the handler thread. Connections are numbered in the
\* order they are accepted.
Connect(c, cand) ==
    /\ pc[c] = "idle"
    /\ \A b \in 1..(c - 1) : pc[b] # "idle"
    /\ hello' = [hello EXCEPT ![c] = cand]
    /\ peerGone' = [peerGone EXCEPT ![c] = (cand = <<>>)]
    /\ pc' = [pc EXCEPT ![c] = "reg"]
    /\ UNCHANGED <<username, clients, lock, bc, wire, inbox, stalled, rd, ident,
                   chatLog, nsent>>
    /\ UNCHANGED udpVars
    /\ UNCHANGED <<codecVars, fileVars>>

\* handle_client_tcp up to the insertion: a read that fails (recv or decode
\* raises, username is still None) or an empty name (return) goes to the
\* finally clause, which calls handle_disconnect with a falsy username, and
\* that does nothing; otherwise the name is made unique and inserted under
\* the lock.
Register(c) ==
    /\ pc[c] = "reg"
    /\ LET original == Strip(hello[c]) IN
       IF ~Decodes(hello[c]) \/ original = <<>>
       THEN /\ pc' = [pc EXCEPT ![c] = "done"]
            /\ UNCHANGED <<username, clients>>
       ELSE /\ Acquirable(lock)
            /\ LET u == UniqueName(clients, original) IN
               /\ username' = [username EXCEPT ![c] = u]
               /\ clients' = DictSet(clients, u, Session(u, c))
            /\ pc' = [pc EXCEPT ![c] = "confirm"]
    /\ hello' = [hello EXCEPT ![c] = <<>>]
    /\ UNCHANGED <<lock, bc, wire, inbox>>
    /\ UNCHANGED peerVars
    /\ UNCHANGED udpVars
    /\ UNCHANGED <<codecVars, fileVars>>

\* client_sock.send(username.encode()), then the call of broadcast_tcp for
\* user-join; a send that raises, as it may once the peer is gone, goes to
\* the finally clause.
Confirm(c) ==
    /\ pc[c] = "confirm"
    /\ ~stalled[c]
    /\ \/ /\ inbox' = [inbox EXCEPT ![c] =
                          IF peerGone[c] THEN @ ELSE Append(@, RawIdentity(username[c]))]
          /\ bc' = [bc EXCEPT ![c] =
                        Call(USER_JOIN, Payload(username[c], 0), username[c], "loop")]
          /\ pc' = [pc EXCEPT ![c] = "start"]
       \/ /\ peerGone[c]
          /\ pc' = [pc EXCEPT ![c] = "disc"]
          /\ UNCHANGED <<inbox, bc>>
    /\ UNCHANGED <<hello, username, clients, lock, wire>>
    /\ UNCHANGED peerVars
    /\ UNCHANGED udpVars
    /\ UNCHANGED <<codecVars, fileVars>>

\* a broadcast that leaves nobody out
TargetsAll(d, excl) == d

\* a list that misses the item inserted last
TargetsButLast(d, excl) ==
    SelectSeq(SubSeq(d, 1, Len(d) - 1), LAMBDA e : e.name # excl)

\* the sessions broadcast_tcp writes to: the items of the dict, in order,
\* whose key is not exclude_username
Targets(d, excl) == SelectSeq(d, LAMBDA e : e.name # excl)

\* broadcast_tcp takes the lock and lists the items of the dict
BcastBegin(c) ==
    /\ pc[c] = "start"
    /\ Acquirable(lock)
    /\ lock' = c
    /\ bc' = [bc EXCEPT ![c].snap = Targets(clients, bc[c].excl)]
    /\ pc' = [pc EXCEPT ![c] = "bcast"]
    /\ UNCHANGED <<hello, username, clients, wire, inbox>>
    /\ UNCHANGED peerVars
    /\ UNCHANGED udpVars
    /\ UNCHANGED <<codecVars, fileVars>>

\* what a send to a peer that is gone may do: return, the bytes lost, or
\* raise
GoneOutcomes == {"lost", "raised"}

\* a loop that an exception of send leaves
AfterSendUncaught(b, o) ==
    [b EXCEPT !.next = IF o = "raised" THEN Len(b.snap) + 1 ELSE @ + 1,
              !.out = Append(@, o)]

\* the call of broadcast_tcp after the send to one target came out as o:
\* the try inside the for catches and prints an exception, and the loop
\* goes on with the next item
AfterSend(b, o) == [b EXCEPT !.next = @ + 1, !.out = Append(@, o)]

\* one turn of the loop of broadcast_tcp: info['tcp'].send(data), with the
\* lock held. The send waits while the target's window is full. Once the
\* target's peer is gone the bytes reach nobody, whether the send returns
\* or raises.
BcastSend(c) ==
    /\ pc[c] = "bcast"
    /\ bc[c].next <= Len(bc[c].snap)
    /\ LET t == bc[c].snap[bc[c].next].tcp IN
       /\ ~stalled[t]
       /\ \/ /\ ~peerGone[t]
             /\ inbox' = [inbox EXCEPT ![t] = Append(@, Frame(bc[c].kind, bc[c].payload))]
             /\ bc' = [bc EXCEPT ![c] = AfterSend(@, "written")]
          \/ /\ peerGone[t]
             /\ UNCHANGED inbox
             /\ \E o \in GoneOutcomes : bc' = [bc EXCEPT ![c] = AfterSend(@, o)]
    /\ UNCHANGED <<pc, hello, username, clients, lock, wire>>
    /\ UNCHANGED peerVars
    /\ UNCHANGED udpVars
    /\ UNCHANGED <<codecVars, fileVars>>

\* a broadcast_tcp that returns with the lock still held
BcastEndHeld(c) ==
    /\ pc[c] = "bcast"
    /\ bc[c].next > Len(bc[c].snap)
    /\ bc' = [bc EXCEPT ![c] = NoBroadcast]
    /\ pc' = [pc EXCEPT ![c] = bc[c].cont]
    /\ username' = IF bc[c].cont = "done" THEN [username EXCEPT ![c] = None] ELSE username
    /\ UNCHANGED <<hello, clients, lock, wire, inbox>>
    /\ UNCHANGED peerVars
    /\ UNCHANGED udpVars
    /\ UNCHANGED <<codecVars, fileVars>>

\* the loop of broadcast_tcp is over: the with block releases the lock and
\* the caller goes on; after the user-leave broadcast the thread ends, and
\* its locals with it
BcastEnd(c) ==
    /\ pc[c] = "bcast"
    /\ bc[c].next > Len(bc[c].snap)
    /\ lock' = Free
    /\ bc' = [bc EXCEPT ![c] = NoBroadcast]
    /\ pc' = [pc EXCEPT ![c] = bc[c].cont]
    /\ username' = IF bc[c].cont = "done" THEN [username EXCEPT ![c] = None] ELSE username
    /\ UNCHANGED <<hello, clients, wire, inbox>>
    /\ UNCHANGED peerVars
    /\ UNCHANGED udpVars
    /\ UNCHANGED <<codecVars, fileVars>>

\* the kinds handle_tcp_message relays to everybody but the sender
RelayedKinds == {FILE_NOTIFY, FILE_CHUNK, SCREEN_START, SCREEN_IMAGE, SCREEN_STOP}

\* a stamp that keeps the user key a payload came with
StampIfAbsent(p, u) == IF p.user = None THEN [p EXCEPT !.user = u] ELSE p

\* payload['user'] = username
Stamp(p, u) == [p EXCEPT !.user = u]

\* the kinds handle_tcp_message has a branch for; each branch begins with
\* payload['user'] = username or payload.get('port')
BranchKinds == RelayedKinds \cup {CHAT, UDP_REGISTER}

\* handle_tcp_message with a last branch that relays whatever kind is left
DispatchEveryKind(f, u) ==
    IF f.kind \in BranchKinds /\ ~f.payload.map
    THEN [do |-> "raised", call |-> NoBroadcast]
    ELSE IF f.kind = CHAT
    THEN [do |-> "bcast", call |-> Call(CHAT, Stamp(f.payload, u), None, "loop")]
    ELSE IF f.kind = UDP_REGISTER
    THEN [do |-> "udpreg", call |-> Call(UDP_REGISTER, f.payload, None, "loop")]
    ELSE [do |-> "bcast", call |-> Call(f.kind, f.payload, u, "loop")]

\* handle_tcp_message on a payload it takes for a map whatever it is
DispatchUnchecked(f, u) ==
    IF f.kind = CHAT
    THEN [do |-> "bcast", call |-> Call(CHAT, Stamp(f.payload, u), None, "loop")]
    ELSE IF f.kind = UDP_REGISTER
    THEN [do |-> "udpreg", call |-> Call(UDP_REGISTER, f.payload, None, "loop")]
    ELSE IF f.kind \in RelayedKinds
    THEN [do |-> "bcast", call |-> Call(f.kind, Stamp(f.payload, u), u, "loop")]
    ELSE [do |-> "skip", call |-> NoBroadcast]

\* handle_tcp_message with the sender left out of the chat broadcast too
DispatchChatExcluded(f, u) ==
    IF f.kind \in BranchKinds /\ ~f.payload.map
    THEN [do |-> "raised", call |-> NoBroadcast]
    ELSE IF f.kind = CHAT
    THEN [do |-> "bcast", call |-> Call(CHAT, Stamp(f.payload, u), u, "loop")]
    ELSE IF f.kind = UDP_REGISTER
    THEN [do |-> "udpreg", call |-> Call(UDP_REGISTER, f.payload, None, "loop")]
    ELSE IF f.kind \in RelayedKinds
    THEN [do |-> "bcast", call |-> Call(f.kind, Stamp(f.payload, u), u, "loop")]
    ELSE [do |-> "skip", call |-> NoBroadcast]

\* what handle_tcp_message does with a decoded frame: "bcast" with the call
\* of broadcast_tcp, "udpreg", "skip" for the kinds without a branch, or
\* "raised" when the first statement of a branch meets a payload that is
\* no map (TypeError of the item assignment, AttributeError of get)
Dispatch(f, u) ==
    IF f.kind \in BranchKinds /\ ~f.payload.map
    THEN [do |-> "raised", call |-> NoBroadcast]
    ELSE IF f.kind = CHAT
    THEN [do |-> "bcast", call |-> Call(CHAT, Stamp(f.payload, u), None, "loop")]
    ELSE IF f.kind = UDP_REGISTER
    THEN [do |-> "udpreg", call |-> Call(UDP_REGISTER, f.payload, None, "loop")]
    ELSE IF f.kind \in RelayedKinds
    THEN [do |-> "bcast", call |-> Call(f.kind, Stamp(f.payload, u), u, "loop")]
    ELSE [do |-> "skip", call |-> NoBroadcast]

\* a loop that takes the frame that came last
NextFrameNewest(w) == w[Len(w)]

\* the frame the inner loop takes: the one at the front of the buffer
NextFrame(w) == Head(w)

\* the main loop of handle_client_tcp takes one frame off the buffer.
\* MessageType(msg_type_byte) is outside the inner try: a byte that is no
\* member raises ValueError to the outer except, and the finally clause
\* disconnects. json.loads and handle_tcp_message are inside the inner try:
\* what they raise is printed and the loop goes on.
RecvFrame(c) ==
    /\ pc[c] = "loop"
    /\ wire[c] # <<>>
    /\ LET f == NextFrame(wire[c]) IN
       /\ wire' = [wire EXCEPT ![c] = Tail(@)]
       /\ IF f.kind \notin MessageType
          THEN /\ pc' = [pc EXCEPT ![c] = "disc"]
               /\ UNCHANGED bc
          ELSE IF ~f.payload.json
          THEN UNCHANGED <<pc, bc>>
          ELSE LET d == Dispatch(f, username[c]) IN
               IF d.do \in {"skip", "raised"}
               THEN UNCHANGED <<pc, bc>>
               ELSE /\ bc' = [bc EXCEPT ![c] = d.call]
                    /\ pc' = [pc EXCEPT ![c] = IF d.do = "bcast" THEN "start" ELSE "udpreg"]
    /\ UNCHANGED <<hello, username, clients, lock, inbox>>
    /\ UNCHANGED peerVars
    /\ UNCHANGED udpVars
    /\ UNCHANGED <<codecVars, fileVars>>

\* client_sock.recv returns b'' or raises: the peer is gone and nothing is
\* left to read; the loop ends and the finally clause disconnects
RecvClosed(c) ==
    /\ pc[c] = "loop"
    /\ wire[c] = <<>>
    /\ peerGone[c]
    /\ pc' = [pc EXCEPT ![c] = "disc"]
    /\ UNCHANGED <<hello, username, clients, lock, bc, wire, inbox>>
    /\ UNCHANGED peerVars
    /\ UNCHANGED udpVars
    /\ UNCHANGED <<codecVars, fileVars>>

\* an assignment that gives the port to every session of the dict
SetUdpAddrAll(d, u, port) ==
    [i \in 1..Len(d) |-> [d[i] EXCEPT !.udp_addr = <<d[i].tcp_addr[1], port>>]]

\* self.clients[username]['udp_addr'] = (client_ip, udp_port), for a
\* username that is in the dict
SetUdpAddr(d, u, port) ==
    IF InDict(d, u)
    THEN [i \in 1..Len(d) |->
            IF d[i].name = u
            THEN [d[i] EXCEPT !.udp_addr = <<d[i].tcp_addr[1], port>>]
            ELSE d[i]]
    ELSE d

\* the UDP_REGISTER branch of handle_tcp_message, under the lock
UdpRegister(c) ==
    /\ pc[c] = "udpreg"
    /\ Acquirable(lock)
    /\ clients' = SetUdpAddr(clients, username[c], bc[c].payload.val)
    /\ pc' = [pc EXCEPT ![c] = "loop"]
    /\ UNCHANGED <<hello, username, lock, bc, wire, inbox>>
    /\ UNCHANGED peerVars
    /\ UNCHANGED udpVars
    /\ UNCHANGED <<codecVars, fileVars>>

\* handle_disconnect(username) for a username that is set: under the lock
\* the socket is closed and the key deleted if it is there; then the call
\* of broadcast_tcp for user-leave
Disconnect(c) ==
    /\ pc[c] = "disc"
    /\ Acquirable(lock)
    /\ clients' = IF InDict(clients, username[c]) THEN DictDel(clients, username[c])
                  ELSE clients
    /\ bc' = [bc EXCEPT ![c] = Call(USER_LEAVE, Payload(username[c], 0), None, "done")]
    /\ pc' = [pc EXCEPT ![c] = "start"]
    /\ UNCHANGED <<hello, username, lock, wire, inbox>>
    /\ UNCHANGED peerVars
    /\ UNCHANGED udpVars
    /\ UNCHANGED <<codecVars, fileVars>>

(* ------------------------------------------------------------- the peers *)

\* what Client.__init__ takes for its identity from its first recv(1024):
\* the raw identity bytes, or the head of whatever was written first
Adopted(item) == IF item.raw THEN item.payload.user ELSE <<item.kind>>

\* GUI.handle_message on the chat log: a chat frame adds one line
HandleMessage(log, item) ==
    IF item.kind = CHAT THEN Append(log, <<item.payload.user, item.payload.val>>)
    ELSE log

\* the length the frame parser of handle_tcp_messages reads in the header
\* when it meets raw identity bytes
RawAsLength(u) == FromU32BE(Slice(u \o <<0, 0, 0, 0>>, 1, 5))

\* the peer reads the next thing the server wrote: Client.__init__ reads
\* the confirmed identity first; after that handle_tcp_messages decodes a
\* frame and hands it to GUI.handle_message. Raw identity bytes that come
\* after the first read are taken for a header, and the loop waits for the
\* length they declare.
PeerRecv(c) ==
    /\ ~peerGone[c]
    /\ ~stalled[c]
    /\ rd[c] < Len(inbox[c])
    /\ LET item == inbox[c][rd[c] + 1] IN
       /\ ident[c] # None /\ item.raw => RawAsLength(item.payload.user) = 0
       /\ IF ident[c] = None
          THEN /\ ident' = [ident EXCEPT ![c] = Adopted(item)]
               /\ UNCHANGED chatLog
          ELSE /\ chatLog' = [chatLog EXCEPT ![c] = HandleMessage(@, item)]
               /\ UNCHANGED ident
    /\ rd' = [rd EXCEPT ![c] = @ + 1]
    /\ UNCHANGED <<peerGone, stalled, nsent>>
    /\ UNCHANGED connVars
    /\ UNCHANGED udpVars
    /\ UNCHANGED <<codecVars, fileVars>>

\* a send_chat_cb that shows the message at once
LocalEchoShown(log, m) == Append(log, <<None, m>>)

\* what GUI.send_chat_cb adds to the local chat log: nothing
LocalEcho(log, m) == log

\* GUI.send_chat_cb with a non-empty entry: Client.send_chat sends
\* {"msg": message}; every message of the model has its own text
SendChat(c) ==
    /\ ident[c] # None
    /\ ~peerGone[c]
    /\ nsent < MaxFrames
    /\ nsent' = nsent + 1
    /\ wire' = [wire EXCEPT ![c] = Append(@, Frame(CHAT, Payload(None, nsent + 1)))]
    /\ chatLog' = [chatLog EXCEPT ![c] = LocalEcho(@, nsent + 1)]
    /\ UNCHANGED <<pc, hello, username, clients, lock, bc, inbox>>
    /\ UNCHANGED <<peerGone, stalled, rd, ident>>
    /\ UNCHANGED udpVars
    /\ UNCHANGED <<codecVars, fileVars>>

\* the discriminant bytes a peer may write: every member of MessageType and
\* the two nearest bytes that are no member
SentKinds == 0..(UDP_REGISTER + 1)

\* the payloads a peer writes with a kind: a map without a user key, a map
\* with a user key that names an identity of its choice, bytes that are no
\* JSON; a udp-register carries a port
SentPayloads(k, v) ==
    IF k = UDP_REGISTER THEN {Payload(None, p) : p \in Ports}
    ELSE {Payload(None, v), Payload(Alice, v), BadPayload}

\* a peer writes one framed message of its choice on its control connection
PeerSend(c, k, p) ==
    /\ pc[c] # "idle"
    /\ ~peerGone[c]
    /\ nsent < MaxFrames
    /\ nsent' = nsent + 1
    /\ wire' = [wire EXCEPT ![c] = Append(@, Frame(k, p))]
    /\ UNCHANGED <<pc, hello, username, clients, lock, bc, inbox>>
    /\ UNCHANGED <<peerGone, stalled, rd, ident, chatLog>>
    /\ UNCHANGED udpVars
    /\ UNCHANGED <<codecVars, fileVars>>

\* number of framed messages the GUIs send of their own accord
MaxSends == 2

\* what a GUI sends unasked in the model: a chat line (send_chat) and a
\* screen image
GuiKinds == {CHAT, SCREEN_IMAGE}

\* Client.send_tcp, called by the GUI of a peer that has its identity:
\* the frames of the model are numbered in the order they are sent
SendTcp(c, k) ==
    /\ pc[c] \notin {"idle", "reg", "confirm", "done"}
    /\ ~peerGone[c]
    /\ nsent < MaxSends
    /\ nsent' = nsent + 1
    /\ wire' = [wire EXCEPT ![c] = Append(@, Frame(k, Payload(None, nsent + 1)))]
    /\ UNCHANGED <<pc, hello, username, clients, lock, bc, inbox>>
    /\ UNCHANGED <<peerGone, stalled, rd, ident, chatLog>>
    /\ UNCHANGED udpVars
    /\ UNCHANGED <<codecVars, fileVars>>

\* a peer writes one more framed message of its choice on its control
\* connection, as Client.__init__ does with its udp-register frame and any
\* program on the LAN may with any bytes; up to MaxSends of them are
\* written altogether
PeerWrite(c, k, p) ==
    /\ pc[c] \notin {"idle", "reg", "confirm", "done"}
    /\ ~peerGone[c]
    /\ nsent < MaxSends
    /\ nsent' = nsent + 1
    /\ wire' = [wire EXCEPT ![c] = Append(@, Frame(k, p))]
    /\ UNCHANGED <<pc, hello, username, clients, lock, bc, inbox>>
    /\ UNCHANGED <<peerGone, stalled, rd, ident, chatLog>>
    /\ UNCHANGED udpVars
    /\ UNCHANGED <<codecVars, fileVars>>

\* the peer stops reading and its receive window fills up: a send to it
\* waits from now on
PeerStall(c) ==
    /\ pc[c] # "idle"
    /\ ~peerGone[c]
    /\ \A b \in Conns : ~stalled[b]
    /\ stalled' = [stalled EXCEPT ![c] = TRUE]
    /\ UNCHANGED <<peerGone, rd, ident, chatLog, nsent>>
    /\ UNCHANGED connVars
    /\ UNCHANGED udpVars
    /\ UNCHANGED <<codecVars, fileVars>>

\* the peer closes its sockets (Client.cleanup) or dies: what it had not
\* read is lost with its socket
PeerClose(c) ==
    /\ pc[c] \notin {"idle", "done"}
    /\ ~peerGone[c]
    /\ peerGone' = [peerGone EXCEPT ![c] = TRUE]
    /\ inbox' = [inbox EXCEPT ![c] = <<>>]
    /\ rd' = [rd EXCEPT ![c] = 0]
    /\ UNCHANGED <<stalled, ident, chatLog, nsent>>
    /\ UNCHANGED <<pc, hello, username, clients, lock, bc, wire>>
    /\ UNCHANGED udpVars
    /\ UNCHANGED <<codecVars, fileVars>>

(* ------------------------------------------------------- the media relay *)

\* Client.pack_udp_message(msg_type, payload)
PackUdp(k, payload) == <<k>> \o U32BE(Len(payload)) \o payload

\* the raw media payloads of the model
MediaBytes == {<<>>, <<7, 8>>}

\* the datagrams the media socket may receive: media of both kinds, a
\* control kind, a byte that is no kind, and one shorter than a header
Datagrams ==
    {PackUdp(k, r) : k \in {VIDEO_STREAM, AUDIO_STREAM, CHAT, 0}, r \in MediaBytes}
    \cup {<<VIDEO_STREAM, 0>>}

\* a lookup that settles for the first key when no udp_addr is addr
SenderOfFirst(d, addr) ==
    LET hits == {i \in 1..Len(d) : d[i].udp_addr = addr} IN
    IF hits = {} THEN (IF d = <<>> THEN None ELSE d[1].name)
    ELSE d[CHOOSE i \in hits : \A j \in hits : i <= j].name

\* the first key, in dict order, whose udp_addr is addr; None when no key
SenderOf(d, addr) ==
    LET hits == {i \in 1..Len(d) : d[i].udp_addr = addr} IN
    IF hits = {} THEN None
    ELSE d[CHOOSE i \in hits : \A j \in hits : i <= j].name

\* the datagram relayed as it came, without a sender tag
RewrapUntagged(data, sender) == data

\* the sender tag before all the bytes after the header, whatever length
\* the header declares
RewrapWhole(data, sender) ==
    LET payload == Slice(data, 5, Len(data))
        new_payload == U32BE(Len(sender)) \o sender \o payload
    IN  <<data[1]>> \o U32BE(Len(new_payload)) \o new_payload

\* new_data of handle_udp_packets: the sender tag before the payload,
\* framed under the same kind
Rewrap(data, sender) ==
    LET payload == Slice(data, 5, 5 + FromU32BE(Slice(data, 1, 5)))
        new_payload == U32BE(Len(sender)) \o sender \o payload
    IN  <<data[1]>> \o U32BE(Len(new_payload)) \o new_payload

\* the entries the relay loop sends to: not the sender's, udp_addr set
RelayDests(d, sender) == SelectSeq(d, LAMBDA e : e.name # sender /\ e.udp_addr # None)

\* recvfrom and the header checks of handle_udp_packets: a datagram of
\* less than 5 bytes is skipped; a first byte that is no MessageType raises
\* ValueError, which the except of the loop prints
UdpRecv(addr, data) ==
    /\ upc = "recv"
    /\ ndgram' = ndgram + 1
    /\ dgram' = [addr |-> addr, data |-> data]
    /\ udpOut' = <<>>
    /\ mediaIn' = {}
    /\ upc' = IF Len(data) < 5 \/ data[1] \notin MessageType THEN "recv" ELSE "lookup"
    /\ UNCHANGED <<usender, utodo>>
    /\ UNCHANGED connVars
    /\ UNCHANGED peerVars
    /\ UNCHANGED <<codecVars, fileVars>>

\* a test that lets every kind through
IsMediaAny(k) == TRUE

\* msg_type in (MessageType.VIDEO_STREAM, MessageType.AUDIO_STREAM)
IsMedia(k) == k \in {VIDEO_STREAM, AUDIO_STREAM}

\* the sender lookup, under the lock; without a sender, or for a kind that
\* is not media, the loop takes the next datagram
UdpLookup ==
    /\ upc = "lookup"
    /\ Acquirable(lock)
    /\ usender' = SenderOf(clients, dgram.addr)
    /\ upc' = IF usender' # None /\ IsMedia(dgram.data[1]) THEN "relay" ELSE "recv"
    /\ UNCHANGED <<dgram, utodo, udpOut, ndgram, mediaIn>>
    /\ UNCHANGED connVars
    /\ UNCHANGED peerVars
    /\ UNCHANGED <<codecVars, fileVars>>

\* the relay takes the lock again and starts its loop over the dict
UdpRelayBegin ==
    /\ upc = "relay"
    /\ Acquirable(lock)
    /\ lock' = UdpThread
    /\ utodo' = RelayDests(clients, usender)
    /\ upc' = "relaying"
    /\ UNCHANGED <<pc, hello, username, clients, bc, wire, inbox>>
    /\ UNCHANGED <<dgram, usender, udpOut, ndgram, mediaIn>>
    /\ UNCHANGED peerVars
    /\ UNCHANGED <<codecVars, fileVars>>

\* one turn of the relay loop: udp_socket.sendto(new_data, info['udp_addr'])
\* with the lock held; an exception, as the network may raise once the
\* destination's peer is gone, is caught and printed
UdpRelaySend ==
    /\ upc = "relaying"
    /\ utodo # <<>>
    /\ LET e == Head(utodo) IN
       \/ udpOut' = Append(udpOut, [to |-> e.udp_addr, tcp |-> e.tcp,
                                     data |-> Rewrap(dgram.data, usender)])
       \/ /\ peerGone[e.tcp]
          /\ UNCHANGED udpOut
    /\ utodo' = Tail(utodo)
    /\ UNCHANGED <<upc, dgram, usender, ndgram, mediaIn>>
    /\ UNCHANGED connVars
    /\ UNCHANGED peerVars
    /\ UNCHANGED <<codecVars, fileVars>>

\* the relay loop is over and the lock released
UdpRelayEnd ==
    /\ upc = "relaying"
    /\ utodo = <<>>
    /\ lock' = Free
    /\ upc' = "recv"
    /\ UNCHANGED <<pc, hello, username, clients, bc, wire, inbox>>
    /\ UNCHANGED <<dgram, usender, utodo, udpOut, ndgram, mediaIn>>
    /\ UNCHANGED peerVars
    /\ UNCHANGED <<codecVars, fileVars>>

\* Client.handle_udp_receives on one datagram: the kind, the sender tag
\* and the media bytes
DecodeRelay(data) ==
    LET full_payload == Slice(data, 5, 5 + FromU32BE(Slice(data, 1, 5)))
        username_len == FromU32BE(Slice(full_payload, 0, 4))
    IN  [kind |-> data[1],
         sender |-> Slice(full_payload, 4, 4 + username_len),
         payload |-> Slice(full_payload, 4 + username_len, Len(full_payload))]

\* a relayed datagram reaches the socket bound to its destination address
\* and the peer's media receive loop decodes it
PeerUdpRecv(m) ==
    /\ \E i \in 1..Len(udpOut) : udpOut[i] = m
    /\ mediaIn' = mediaIn \cup {[to |-> m.to, msg |-> DecodeRelay(m.data)]}
    /\ UNCHANGED <<upc, dgram, usender, utodo, udpOut, ndgram>>
    /\ UNCHANGED connVars
    /\ UNCHANGED peerVars
    /\ UNCHANGED <<codecVars, fileVars>>

(* --------------------------------------------------- the file reconstructor *)

\* number of file-chunk frames the GUI handles
MaxChunks == 3

\* the largest size a file-notify declares
MaxSize == 3

\* the senders the relay stamps on file frames
Senders == {Alice, Alice \o Underscore \o Digits(1)}

\* 'Unknown', the sender of a transfer that began without a file-notify
Unknown == <<85, 110, 107, 110, 111, 119, 110>>

\* the chunk ids of the model
ChunkIds == 0..2

\* the raw bytes a chunk may carry
FileData == {<<10>>, <<20, 21>>, <<30>>}

\* the character of the base64 alphabet with index i
B64Char(i) ==
    IF i < 26 THEN 65 + i
    ELSE IF i < 52 THEN 71 + i
    ELSE IF i < 62 THEN i - 4
    ELSE IF i = 62 THEN 43 ELSE 47

\* the index of a character of the base64 alphabet
B64Index(ch) == CHOOSE i \in 0..63 : B64Char(i) = ch

RECURSIVE B64Encode(_)
\* base64.b64encode(chunk), as the bytes of its text; 61 is '='
B64Encode(b) ==
    IF b = <<>> THEN <<>>
    ELSE IF Len(b) = 1
    THEN <<B64Char(b[1] \div 4), B64Char((b[1] % 4) * 16), 61, 61>>
    ELSE IF Len(b) = 2
    THEN <<B64Char(b[1] \div 4), B64Char((b[1] % 4) * 16 + b[2] \div 16),
           B64Char((b[2] % 16) * 4), 61>>
    ELSE <<B64Char(b[1] \div 4), B64Char((b[1] % 4) * 16 + b[2] \div 16),
           B64Char((b[2] % 16) * 4 + b[3] \div 64), B64Char(b[3] % 64)>>
         \o B64Encode(SubSeq(b, 4, Len(b)))

RECURSIVE B64Decode(_)
\* base64.b64decode(text) for the text of a base64 encoding
B64Decode(t) ==
    IF Len(t) < 4 THEN <<>>
    ELSE LET a == B64Index(t[1])
             b == B64Index(t[2])
         IN  IF t[3] = 61 THEN <<a * 4 + b \div 16>>
             ELSE LET c == B64Index(t[3]) IN
                  IF t[4] = 61 THEN <<a * 4 + b \div 16, (b % 16) * 16 + c \div 4>>
                  ELSE <<a * 4 + b \div 16, (b % 16) * 16 + c \div 4,
                         (c % 4) * 64 + B64Index(t[4])>>
                       \o B64Decode(SubSeq(t, 5, Len(t)))

RECURSIVE SortedOnePerId(_)
\* a sort that keeps the first chunk of every chunk id only
SortedOnePerId(chunks) ==
    IF chunks = <<>> THEN <<>>
    ELSE LET least == CHOOSE i \in 1..Len(chunks) :
                         /\ \A j \in 1..Len(chunks) : chunks[i][1] <= chunks[j][1]
                         /\ \A j \in 1..(i - 1) : chunks[j][1] # chunks[i][1]
         IN  <<chunks[least]>> \o
             SortedOnePerId(SelectSeq(chunks, LAMBDA x : x[1] # chunks[least][1]))

\* the chunks left in the order they came
SortedUnsorted(chunks) == chunks

RECURSIVE Sorted(_)
\* sorted(chunks, key=lambda x: x[0]): ascending chunk_id, chunks of the
\* same id in the order they came
Sorted(chunks) ==
    IF chunks = <<>> THEN <<>>
    ELSE LET least == CHOOSE i \in 1..Len(chunks) :
                         /\ \A j \in 1..Len(chunks) : chunks[i][1] <= chunks[j][1]
                         /\ \A j \in 1..(i - 1) : chunks[j][1] # chunks[i][1]
         IN  <<chunks[least]>> \o
             Sorted([j \in 1..(Len(chunks) - 1) |->
                        IF j < least THEN chunks[j] ELSE chunks[j + 1]])

RECURSIVE Join(_)
\* b''.join(chunk for _, chunk in chunks)
Join(chunks) == IF chunks = <<>> THEN <<>> ELSE chunks[1][2] \o Join(Tail(chunks))

\* the download button after update_file_row_progress(filename,
\* received_bytes, total_bytes): without a row nothing happens; the button
\* is enabled when total_bytes is not 0 and is reached
UpdateFileRowProgress(row, received_bytes, total_bytes) ==
    IF row.button = "none" THEN row
    ELSE IF total_bytes # 0 /\ received_bytes >= total_bytes
    THEN [row EXCEPT !.button = "normal"]
    ELSE row

\* the chunks the GUI has been handed, over all files
TotalChunks(fc, fs) ==
    LET RECURSIVE Sum(_)
        Sum(S) == IF S = {} THEN 0
                  ELSE LET f == CHOOSE x \in S : TRUE IN Len(fc[f]) + Sum(S \ {f})
    IN  Sum(fs)

\* GUI.handle_message on a file-notify frame: the metadata and the chunk
\* list of the filename start afresh and create_file_row puts a new row,
\* its button disabled, on the panel; an earlier row of the filename stays
\* on the panel with its button as it was. The GUI thread handles a frame
\* once the calls of download_file before it have returned.
HandleFileNotify(filename, sender, size) ==
    /\ incoming_files_meta' = [incoming_files_meta EXCEPT ![filename] =
           [there |-> TRUE, sender |-> sender, size |-> size, received |-> 0]]
    /\ file_chunks' = [file_chunks EXCEPT ![filename] = <<>>]
    /\ file_rows' = [file_rows EXCEPT ![filename] =
           [button |-> "disabled", stale |-> @.stale \/ @.button = "normal"]]
    /\ saved' = [f \in Filenames |-> NotSaved]
    /\ UNCHANGED <<connVars, peerVars, udpVars, codecVars>>

\* GUI.handle_message on a file-chunk frame
HandleFileChunk(filename, chunk_id, text) ==
    /\ TotalChunks(file_chunks, Filenames) < MaxChunks
    /\ LET data == B64Decode(text)
           info == IF incoming_files_meta[filename].there
                   THEN incoming_files_meta[filename]
                   ELSE [there |-> TRUE, sender |-> Unknown, size |-> 0, received |-> 0]
           received == info.received + Len(data)
       IN  /\ incoming_files_meta' = [incoming_files_meta EXCEPT ![filename] =
                  [info EXCEPT !.received = received]]
           /\ file_chunks' = [file_chunks EXCEPT ![filename] =
                  Append(@, <<chunk_id, data>>)]
           /\ file_rows' = [file_rows EXCEPT ![filename] =
                  UpdateFileRowProgress(@, received, info.size)]
    /\ saved' = [f \in Filenames |-> NotSaved]
    /\ UNCHANGED <<connVars, peerVars, udpVars, codecVars>>

\* download_file gets past its first test: there are chunks, there is
\* metadata, and received is not below size
Proceeds(filename) ==
    /\ file_chunks[filename] # <<>>
    /\ incoming_files_meta[filename].there
    /\ ~(incoming_files_meta[filename].received < incoming_files_meta[filename].size)

\* the user clicks an enabled download button of the filename, of the
\* current row or of an earlier one: download_file(filename) warns, or
\* sorts the chunks and joins their data
ClickDownload(filename) ==
    /\ file_rows[filename].button = "normal" \/ file_rows[filename].stale
    /\ saved' = [[f \in Filenames |-> NotSaved] EXCEPT ![filename] =
           IF Proceeds(filename)
           THEN [did |-> "built", data |-> Join(Sorted(file_chunks[filename]))]
           ELSE [did |-> "warned", data |-> <<>>]]
    /\ UNCHANGED <<incoming_files_meta, file_chunks, file_rows>>
    /\ UNCHANGED <<connVars, peerVars, udpVars, codecVars>>

(* ---------------------------------------------------------- the wire codec *)

\* number of frames a sender packs
MaxStream == 2

\* n zero bytes
Zeros(n) == [i \in 1..n |-> 0]

\* the most bytes one recv returns short of everything that is there
MaxRecv == 6

\* the sizes of what one recv may return
RecvSizes == (1..MaxRecv) \cup {Len(stream)}

\* the frames of the model: every kind with no payload, with "{}" and with
\* bytes that read as the header of an empty chat frame, and a screen
\* image of 256 bytes
CodecFrames ==
    {[kind |-> k, payload |-> p] :
        k \in MessageType, p \in {<<>>, <<123, 125>>, <<CHAT, 0, 0, 0, 0>>}}
    \cup {[kind |-> SCREEN_IMAGE, payload |-> Zeros(256)]}

\* a header whose length field counts the header too
PackMessageWithHeader(k, payload_bytes) ==
    <<k>> \o U32BE(Len(payload_bytes) + 5) \o payload_bytes

\* pack_message on the bytes json.dumps(payload).encode() gave:
\* struct.pack('!BI', msg_type.value, length) + payload_bytes
PackMessage(k, payload_bytes) == <<k>> \o U32BE(Len(payload_bytes)) \o payload_bytes

RECURSIVE ParseLoopNoCarry(_, _)
\* a loop that forgets what is left of the buffer when it stops
ParseLoopNoCarry(buf, taken) ==
    IF Len(buf) < 5
    THEN [frames |-> taken, rest |-> <<>>, raised |-> FALSE]
    ELSE LET length == FromU32BE(Slice(buf, 1, 5)) IN
         IF Len(buf) < 5 + length
         THEN [frames |-> taken, rest |-> <<>>, raised |-> FALSE]
         ELSE IF buf[1] \notin MessageType
         THEN [frames |-> taken, rest |-> <<>>, raised |-> TRUE]
         ELSE ParseLoopNoCarry(Slice(buf, 5 + length, Len(buf)),
                               Append(taken, [kind |-> buf[1],
                                              payload |-> Slice(buf, 5, 5 + length)]))

RECURSIVE ParseLoop(_, _)
\* the inner while of the receive loops (handle_client_tcp and
\* handle_tcp_messages have the same) on the bytes of buffer: while a whole
\* frame is there, MessageType(buffer[0]), payload_bytes = buffer[5:5+length]
\* and buffer = buffer[5+length:]; it stops at a partial frame, which stays
\* in the buffer, and a byte that is no MessageType raises
ParseLoop(buf, taken) ==
    IF Len(buf) < 5
    THEN [frames |-> taken, rest |-> buf, raised |-> FALSE]
    ELSE LET length == FromU32BE(Slice(buf, 1, 5)) IN
         IF Len(buf) < 5 + length
         THEN [frames |-> taken, rest |-> buf, raised |-> FALSE]
         ELSE IF buf[1] \notin MessageType
         THEN [frames |-> taken, rest |-> buf, raised |-> TRUE]
         ELSE ParseLoop(Slice(buf, 5 + length, Len(buf)),
                        Append(taken, [kind |-> buf[1],
                                       payload |-> Slice(buf, 5, 5 + length)]))

\* send_tcp: the sender packs a frame and writes it to its socket
PackAndSend(k, payload_bytes) ==
    /\ Len(sent) < MaxStream
    /\ sent' = Append(sent, [kind |-> k, payload |-> payload_bytes])
    /\ stream' = stream \o PackMessage(k, payload_bytes)
    /\ UNCHANGED <<buffer, got, looping>>
    /\ UNCHANGED <<connVars, peerVars, udpVars, fileVars>>

\* one turn of the outer loop: recv returns the next n bytes, buffer +=
\* data, and the inner loop takes every whole frame off the buffer. The
\* ValueError of MessageType(msg_type_byte) is raised outside the inner try
\* and leaves the loop: the except of handle_tcp_messages breaks, that of
\* handle_client_tcp goes on to the finally clause.
RecvChunk(n) ==
    /\ looping
    /\ n \in 1..Len(stream)
    /\ LET r == ParseLoop(buffer \o SubSeq(stream, 1, n), <<>>) IN
       /\ buffer' = r.rest
       /\ got' = got \o r.frames
       /\ looping' = ~r.raised
    /\ stream' = SubSeq(stream, n + 1, Len(stream))
    /\ UNCHANGED sent
    /\ UNCHANGED <<connVars, peerVars, udpVars, fileVars>>

\* "msg" and "user", the keys of the payloads
MsgKey == <<109, 115, 103>>
UserKey == <<117, 115, 101, 114>>

\* a JSON string of plain characters, between its quotes
Quoted(t) == <<34>> \o t \o <<34>>

\* json.dumps(payload).encode() for the payloads the relay writes: a chat
\* frame is {"msg": text, "user": name}, with the number of the message for
\* its text; a presence frame is {"user": name}
Dumps(k, p) ==
    IF k = CHAT
    THEN <<123>> \o Quoted(MsgKey) \o <<58, 32>> \o Quoted(Digits(p.val)) \o <<44, 32>>
         \o Quoted(UserKey) \o <<58, 32>> \o Quoted(p.user) \o <<125>>
    ELSE <<123>> \o Quoted(UserKey) \o <<58, 32>> \o Quoted(p.user) \o <<125>>

\* the bytes of one thing the relay wrote to a connection
WireBytes(item) ==
    IF item.raw THEN item.payload.user
    ELSE PackMessage(item.kind, Dumps(item.kind, item.payload))

RECURSIVE Flat(_)
\* the bytes of a sequence of writes, as the stream carries them
Flat(items) == IF items = <<>> THEN <<>> ELSE WireBytes(Head(items)) \o Flat(Tail(items))

\* the size of the handshake read of Client.__init__: recv(1024)
HandshakeRead == 1024

\* what recv(1024) returns when the first n writes to the socket are there:
\* the stream keeps no boundaries between writes, so the read returns all
\* their bytes, up to its size
FirstBytes(items, n) == Slice(Flat(SubSeq(items, 1, n)), 0, HandshakeRead)

\* self.username = self.tcp_socket.recv(1024).decode() in Client.__init__,
\* when the first n things the relay wrote have reached the peer: the peer
\* takes all the bytes read for its identity, and handle_tcp_messages
\* starts after them
FirstRead(c, n) ==
    /\ ~peerGone[c]
    /\ ~stalled[c]
    /\ ident[c] = None
    /\ rd[c] = 0
    /\ n \in 1..Len(inbox[c])
    /\ Len(Flat(SubSeq(inbox[c], 1, n))) <= HandshakeRead
    /\ ident' = [ident EXCEPT ![c] = FirstBytes(inbox[c], n)]
    /\ rd' = [rd EXCEPT ![c] = n]
    /\ UNCHANGED <<peerGone, stalled, chatLog, nsent>>
    /\ UNCHANGED connVars
    /\ UNCHANGED udpVars
    /\ UNCHANGED <<codecVars, fileVars>>

(* ----------------------------------------------------- the specifications *)

\* the peers that have closed their end
Closed == {c \in Conns : peerGone[c]}

\* Handshakes, presence and disconnects: every connection may claim any
\* candidate and close at any time; no framed message is sent.
Next ==
    \/ \E c \in Conns : \E cand \in Candidates : Connect(c, cand)
    \/ \E c \in Conns : Register(c)
    \/ \E c \in Conns : Confirm(c)
    \/ \E c \in Conns : BcastBegin(c)
    \/ \E c \in Conns : BcastSend(c)
    \/ \E c \in Conns : BcastEnd(c)
    \/ \E c \in Conns : RecvClosed(c)
    \/ \E c \in Conns : Disconnect(c)
    \/ \E c \in Conns : PeerClose(c)

Spec == Init /\ [][Next]_vars

\* the identity of the c-th of the connections that claim "alice" one
\* after the other: alice, alice_1, alice_2, ...
SeatName(c) == IF c = 1 THEN Alice ELSE Alice \o Underscore \o Digits(c - 1)

\* The state after the first n connections have completed their handshakes
\* one after the other as "alice", the user-join broadcasts included, with
\* the registry reg of their sessions; the other connections have not
\* connected.
Established(n, reg) ==
    /\ pc = [c \in Conns |-> IF c <= n THEN "loop" ELSE "idle"]
    /\ hello = [c \in Conns |-> <<>>]
    /\ username = [c \in Conns |-> IF c <= n THEN SeatName(c) ELSE None]
    /\ clients = reg
    /\ lock = Free
    /\ bc = [c \in Conns |-> NoBroadcast]
    /\ wire = [c \in Conns |-> <<>>]
    /\ inbox = [c \in Conns |->
                  IF c <= n
                  THEN <<RawIdentity(SeatName(c))>> \o
                       [j \in 1..(n - c) |-> Frame(USER_JOIN, Payload(SeatName(c + j), 0))]
                  ELSE <<>>]
    /\ peerGone = [c \in Conns |-> FALSE]
    /\ stalled = [c \in Conns |-> FALSE]
    /\ rd = [c \in Conns |-> 0]
    /\ ident = [c \in Conns |-> None]
    /\ chatLog = [c \in Conns |-> <<>>]
    /\ nsent = 0
    /\ upc = "recv"
    /\ dgram = [addr |-> <<0, 0>>, data |-> <<>>]
    /\ usender = None
    /\ utodo = <<>>
    /\ udpOut = <<>>
    /\ ndgram = 0
    /\ mediaIn = {}
    /\ CodecIdle
    /\ NoFiles

\* A meeting under way: all connections but the last have joined, and none
\* has announced a media port.
Meeting == Established(NConn - 1, [i \in 1..(NConn - 1) |-> Session(SeatName(i), i)])

\* The control channel of a meeting, seen from the relay: the third
\* connection joins as another alice, peers write framed messages of every
\* kind, and close.
NextRelay ==
    \/ \E c \in Conns : Connect(c, Alice)
    \/ \E c \in Conns : Register(c)
    \/ \E c \in Conns : Confirm(c)
    \/ \E c \in Conns : BcastBegin(c)
    \/ \E c \in Conns : BcastSend(c)
    \/ \E c \in Conns : BcastEnd(c)
    \/ \E c \in Conns : RecvFrame(c)
    \/ \E c \in Conns : RecvClosed(c)
    \/ \E c \in Conns : UdpRegister(c)
    \/ \E c \in Conns : Disconnect(c)
    \/ \E c \in Conns : \E k \in SentKinds : \E p \in SentPayloads(k, nsent + 1) :
          PeerSend(c, k, p)
    \/ \E c \in Conns : PeerClose(c)

RelaySpec == Meeting /\ [][NextRelay]_vars

\* Chat in a meeting, peers included: the peers read what the relay writes
\* to them, adopt their identity and send chat messages from their GUI.
NextChat ==
    \/ \E c \in Conns : Connect(c, Alice)
    \/ \E c \in Conns : Register(c)
    \/ \E c \in Conns : Confirm(c)
    \/ \E c \in Conns : BcastBegin(c)
    \/ \E c \in Conns : BcastSend(c)
    \/ \E c \in Conns : BcastEnd(c)
    \/ \E c \in Conns : RecvFrame(c)
    \/ \E c \in Conns : RecvClosed(c)
    \/ \E c \in Conns : Disconnect(c)
    \/ \E c \in Conns : PeerRecv(c)
    \/ \E c \in Conns : SendChat(c)
    \/ \E c \in Conns : PeerClose(c)

ChatSpec == Meeting /\ [][NextChat]_vars

\* the registries of an established meeting in which every session has
\* announced one of the ports, or none yet
MediaRegistries ==
    {[i \in Conns |->
        [Session(SeatName(i), i) EXCEPT
            !.udp_addr = IF f[i] = 0 THEN None ELSE <<ClientIp(i), f[i]>>]]
     : f \in [Conns -> Ports \cup {0}]}

\* A meeting of all connections, each with or without a media address
MediaMeeting == \E reg \in MediaRegistries : Established(NConn, reg)

\* The media channel of a meeting: datagrams arrive and are relayed, peers
\* decode them and close, and the handlers of closed connections
\* disconnect.
NextMedia ==
    \/ \E addr \in Addrs : \E data \in Datagrams :
          ndgram < MaxDgrams /\ UdpRecv(addr, data)
    \/ UdpLookup
    \/ UdpRelayBegin
    \/ UdpRelaySend
    \/ UdpRelayEnd
    \/ \E i \in 1..Len(udpOut) : PeerUdpRecv(udpOut[i])
    \/ \E c \in Conns : PeerClose(c)
    \/ \E c \in Conns : RecvClosed(c)
    \/ \E c \in Conns : Disconnect(c)
    \/ \E c \in Conns : BcastBegin(c)
    \/ \E c \in Conns : BcastSend(c)
    \/ \E c \in Conns : BcastEnd(c)

MediaSpec == MediaMeeting /\ [][NextMedia]_vars

\* a name no session of a meeting of "alice"s has
Newcomer == Alice \o Underscore \o Digits(NConn)

\* Presence in a meeting: the last connection joins under a name of its
\* own, peers close, and handlers disconnect.
NextPresence ==
    \/ \E c \in Conns : Connect(c, Newcomer)
    \/ \E c \in Conns : Register(c)
    \/ \E c \in Conns : Confirm(c)
    \/ \E c \in Conns : BcastBegin(c)
    \/ \E c \in Conns : BcastSend(c)
    \/ \E c \in Conns : BcastEnd(c)
    \/ \E c \in Conns : RecvClosed(c)
    \/ \E c \in Conns : Disconnect(c)
    \/ \E c \in Conns : PeerClose(c)

\* a step of the handler thread of connection c
HandlerStep(c) ==
    \/ Register(c)
    \/ Confirm(c)
    \/ BcastBegin(c)
    \/ BcastSend(c)
    \/ BcastEnd(c)
    \/ RecvClosed(c)
    \/ Disconnect(c)

\* every handler thread that can run does run
Fairness == \A c \in Conns : WF_vars(HandlerStep(c))

FairSpec == Meeting /\ [][NextPresence]_vars /\ Fairness

\* Presence in a meeting one of whose peers may stop reading for good
NextStall ==
    \/ \E c \in Conns : Connect(c, Newcomer)
    \/ \E c \in Conns : Register(c)
    \/ \E c \in Conns : Confirm(c)
    \/ \E c \in Conns : BcastBegin(c)
    \/ \E c \in Conns : BcastSend(c)
    \/ \E c \in Conns : BcastEnd(c)
    \/ \E c \in Conns : RecvClosed(c)
    \/ \E c \in Conns : Disconnect(c)
    \/ \E c \in Conns : ~stalled[c] /\ PeerClose(c)
    \/ \E c \in Conns : PeerStall(c)

StallSpec == Meeting /\ [][NextStall]_vars /\ Fairness

\* The codec on its own: a sender packs frames of every kind and the
\* receive loop is handed their bytes in chunks of any size.
NextCodec ==
    \/ \E f \in CodecFrames : PackAndSend(f.kind, f.payload)
    \/ \E n \in RecvSizes : RecvChunk(n)

CodecSpec == Init /\ [][NextCodec]_vars

\* The file panel of one GUI: file-notify and file-chunk frames of any
\* filename, sender, size, chunk id and data reach handle_message in any
\* order, and the user clicks the download buttons that are enabled.
NextFile ==
    \/ \E f \in Filenames : \E u \in Senders : \E n \in 0..MaxSize :
          HandleFileNotify(f, u, n)
    \/ \E f \in Filenames : \E i \in ChunkIds : \E d \in FileData :
          HandleFileChunk(f, i, B64Encode(d))
    \/ \E f \in Filenames : ClickDownload(f)

FileSpec == Init /\ [][NextFile]_vars

\* Several frames in a meeting: the GUIs send chat lines and screen images
\* one after the other while the last connection joins and peers close.
NextOrder ==
    \/ \E c \in Conns : Connect(c, Alice)
    \/ \E c \in Conns : Register(c)
    \/ \E c \in Conns : Confirm(c)
    \/ \E c \in Conns : BcastBegin(c)
    \/ \E c \in Conns : BcastSend(c)
    \/ \E c \in Conns : BcastEnd(c)
    \/ \E c \in Conns : RecvFrame(c)
    \/ \E c \in Conns : RecvClosed(c)
    \/ \E c \in Conns : Disconnect(c)
    \/ \E c \in Conns : \E k \in GuiKinds : SendTcp(c, k)
    \/ \E c \in Conns : PeerClose(c)

OrderSpec == Meeting /\ [][NextOrder]_vars

\* Media registration in a meeting: the sessions announce ports, once or
\* again, between chat lines and screen images, while the last connection
\* joins and peers close.
NextPort ==
    \/ \E c \in Conns : Connect(c, Alice)
    \/ \E c \in Conns : Register(c)
    \/ \E c \in Conns : Confirm(c)
    \/ \E c \in Conns : BcastBegin(c)
    \/ \E c \in Conns : BcastSend(c)
    \/ \E c \in Conns : BcastEnd(c)
    \/ \E c \in Conns : RecvFrame(c)
    \/ \E c \in Conns : RecvClosed(c)
    \/ \E c \in Conns : UdpRegister(c)
    \/ \E c \in Conns : Disconnect(c)
    \/ \E c \in Conns : \E p \in Ports : PeerWrite(c, UDP_REGISTER, Payload(None, p))
    \/ \E c \in Conns : \E k \in GuiKinds : SendTcp(c, k)
    \/ \E c \in Conns : PeerClose(c)

PortSpec == Meeting /\ [][NextPort]_vars

\* the kinds handle_tcp_message stamps with the sender and broadcasts
StampedKinds == RelayedKinds \cup {CHAT}

\* the identities of a meeting of "alice"s
Names == {SeatName(i) : i \in Conns}

\* Impersonation in a meeting: every frame a peer writes is of a stamped
\* kind and comes with a user key that names an identity of the meeting
\* other than the one its connection holds.
NextForge ==
    \/ \E c \in Conns : Connect(c, Alice)
    \/ \E c \in Conns : Register(c)
    \/ \E c \in Conns : Confirm(c)
    \/ \E c \in Conns : BcastBegin(c)
    \/ \E c \in Conns : BcastSend(c)
    \/ \E c \in Conns : BcastEnd(c)
    \/ \E c \in Conns : RecvFrame(c)
    \/ \E c \in Conns : RecvClosed(c)
    \/ \E c \in Conns : Disconnect(c)
    \/ \E c \in Conns : \E k \in StampedKinds : \E u \in Names \ {username[c]} :
          PeerSend(c, k, Payload(u, nsent + 1))
    \/ \E c \in Conns : PeerClose(c)

ForgeSpec == Meeting /\ [][NextForge]_vars

\* number of datagrams the media socket receives after one it drops
MaxAfter == 1

\* datagrams the relay is to drop: shorter than a header, of a known kind
\* that is not media, and of a first byte that is no kind
Droppable ==
    {<<>>, <<VIDEO_STREAM, 0>>, <<AUDIO_STREAM, 0, 0, 0>>}
    \cup {PackUdp(k, r) : k \in {CHAT, UDP_REGISTER, 0, UDP_REGISTER + 1, 255},
                          r \in MediaBytes}

\* media datagrams whose header declares none of the two bytes that follow
\* it, one of them, and more than there are
Mismatched ==
    {<<k>> \o U32BE(n) \o <<7, 8>> :
        k \in {VIDEO_STREAM, AUDIO_STREAM}, n \in {0, 1, 5}}

\* The media socket of a meeting on its own: first a datagram the relay is
\* to drop, then datagrams of any content, well formed or not, from any
\* address; the peers decode what is relayed to them.
NextDatagram ==
    \/ \E addr \in Addrs : \E data \in Droppable :
          ndgram = 0 /\ UdpRecv(addr, data)
    \/ \E addr \in Addrs : \E data \in Datagrams \cup Mismatched :
          ndgram \in 1..MaxAfter /\ UdpRecv(addr, data)
    \/ UdpLookup
    \/ UdpRelayBegin
    \/ UdpRelaySend
    \/ UdpRelayEnd
    \/ \E i \in 1..Len(udpOut) : PeerUdpRecv(udpOut[i])

DatagramSpec == MediaMeeting /\ [][NextDatagram]_vars

\* the frames a connection may carry to a peer: every kind and the two
\* nearest bytes that are no kind, with no payload and with "{}"
AnyFrames ==
    {[kind |-> k, payload |-> p] : k \in SentKinds, p \in {<<>>, <<123, 125>>}}

\* The receive loop of a peer on a connection that carries frames of any
\* discriminant.
NextPeerLoop ==
    \/ \E f \in AnyFrames : PackAndSend(f.kind, f.payload)
    \/ \E n \in RecvSizes : RecvChunk(n)

PeerLoopSpec == Init /\ [][NextPeerLoop]_vars

\* A meeting of all connections, none with a media address
FullMeeting == Established(NConn, [i \in Conns |-> Session(SeatName(i), i)])

\* the payloads of a complete frame that cannot be processed
Unprocessable == {BadPayload, NotAMap}

\* a kind that is broadcast to all, one that is relayed to the others, the
\* one that sets the media address, and one without a branch
SomeKinds == {CHAT, FILE_CHUNK, UDP_REGISTER, FILE_REQUEST}

\* Payloads that cannot be processed, in a meeting: the first session
\* writes a frame of a known kind whose payload is no JSON, or no map, and
\* then frames of any payload; peers close.
NextBadPayload ==
    \/ \E c \in Conns : BcastBegin(c)
    \/ \E c \in Conns : BcastSend(c)
    \/ \E c \in Conns : BcastEnd(c)
    \/ \E c \in Conns : RecvFrame(c)
    \/ \E c \in Conns : RecvClosed(c)
    \/ \E c \in Conns : UdpRegister(c)
    \/ \E c \in Conns : Disconnect(c)
    \/ \E k \in MessageType : \E p \in Unprocessable :
          nsent = 0 /\ PeerWrite(1, k, p)
    \/ \E k \in SomeKinds : \E p \in Unprocessable \cup {Payload(None, nsent + 1)} :
          nsent > 0 /\ PeerWrite(1, k, p)
    \/ \E c \in Conns : PeerClose(c)

BadPayloadSpec == FullMeeting /\ [][NextBadPayload]_vars

\* the first bytes of a connection in the handshakes below: a name, blanks
\* of several kinds, bytes that are no UTF-8, and nothing before the peer
\* closes or the read fails
Hellos == {Alice, Blank, <<9, 32, 10>>, <<255, 254>>, <<>>}

\* Handshakes that succeed and handshakes that do not, side by side
NextHandshake ==
    \/ \E c \in Conns : \E cand \in Hellos : Connect(c, cand)
    \/ \E c \in Conns : Register(c)
    \/ \E c \in Conns : Confirm(c)
    \/ \E c \in Conns : BcastBegin(c)
    \/ \E c \in Conns : BcastSend(c)
    \/ \E c \in Conns : BcastEnd(c)
    \/ \E c \in Conns : RecvClosed(c)
    \/ \E c \in Conns : Disconnect(c)
    \/ \E c \in Conns : PeerClose(c)

HandshakeSpec == Init /\ [][NextHandshake]_vars

\* The handshake seen from the peers: the last connection joins a meeting
\* while the peers make their handshake read, whenever the scheduler lets
\* them, decode the frames after it, send chat lines and close.
NextFirstRead ==
    \/ \E c \in Conns : Connect(c, Alice)
    \/ \E c \in Conns : Register(c)
    \/ \E c \in Conns : Confirm(c)
    \/ \E c \in Conns : BcastBegin(c)
    \/ \E c \in Conns : BcastSend(c)
    \/ \E c \in Conns : BcastEnd(c)
    \/ \E c \in Conns : RecvFrame(c)
    \/ \E c \in Conns : RecvClosed(c)
    \/ \E c \in Conns : Disconnect(c)
    \/ \E c \in Conns : \E n \in 1..(NConn + MaxFrames) : FirstRead(c, n)
    \/ \E c \in Conns : ident[c] # None /\ PeerRecv(c)
    \/ \E c \in Conns : SendChat(c)
    \/ \E c \in Conns : PeerClose(c)

FirstReadSpec == Meeting /\ [][NextFirstRead]_vars

\* the members of MessageType handle_tcp_message has no branch for
InertKinds == MessageType \ BranchKinds

\* Frames of the kinds without a branch, in a meeting: the first frame a
\* peer writes is of such a kind and names an identity of the meeting, its
\* own or another; after it come more of them and chat lines; peers close.
NextInert ==
    \/ \E c \in Conns : BcastBegin(c)
    \/ \E c \in Conns : BcastSend(c)
    \/ \E c \in Conns : BcastEnd(c)
    \/ \E c \in Conns : RecvFrame(c)
    \/ \E c \in Conns : RecvClosed(c)
    \/ \E c \in Conns : Disconnect(c)
    \/ \E c \in Conns : \E k \in InertKinds : \E u \in Names :
          nsent = 0 /\ PeerWrite(c, k, Payload(u, nsent + 1))
    \/ \E c \in Conns : \E k \in {USER_LEAVE, VIDEO_STREAM, CHAT} :
          nsent > 0 /\ PeerWrite(c, k, Payload(None, nsent + 1))
    \/ \E c \in Conns : PeerClose(c)

InertSpec == FullMeeting /\ [][NextInert]_vars

\* A meeting of all connections but the last in which the first session
\* has announced a media port
LockMeeting ==
    Established(NConn - 1,
                [i \in 1..(NConn - 1) |->
                    [Session(SeatName(i), i) EXCEPT
                        !.udp_addr = IF i = 1 THEN <<ClientIp(1), 1>> ELSE None]])

\* a step of the handler thread of connection c, its message loop included
ServerStep(c) ==
    \/ HandlerStep(c)
    \/ RecvFrame(c)
    \/ UdpRegister(c)

\* a step of the media relay thread past recvfrom
RelayStep ==
    \/ UdpLookup
    \/ UdpRelayBegin
    \/ UdpRelaySend
    \/ UdpRelayEnd

\* All the users of the lock at once: the last connection registers, a
\* session announces a media port or sends a chat line, a media datagram
\* of the first session is relayed, peers close and handlers disconnect.
\* Every send returns.
NextLock ==
    \/ \E c \in Conns : Connect(c, Alice)
    \/ \E c \in Conns : ServerStep(c)
    \/ \E c \in Conns : \E k \in {UDP_REGISTER, CHAT} : PeerSend(c, k, Payload(None, 2))
    \/ \E c \in Conns : PeerClose(c)
    \/ ndgram < MaxDgrams /\ UdpRecv(<<ClientIp(1), 1>>, PackUdp(VIDEO_STREAM, <<7, 8>>))
    \/ RelayStep

\* every thread of the server that can run does run
LockFairness == (\A c \in Conns : WF_vars(ServerStep(c))) /\ WF_vars(RelayStep)

LockSpec == LockMeeting /\ [][NextLock]_vars /\ LockFairness

\* the chunks of the files two senders share under one filename: the two
\* files have no chunk in common
FileOf(u) == IF u = Alice THEN {<<10>>, <<20, 21>>} ELSE {<<30>>}

\* The GUI of a peer that has handled the file-notify frames of both
\* senders for one filename, that of sender u with size n last: the second
\* frame has put its metadata and an empty chunk list in the place of the
\* first's, and a row of its own on the panel. Nothing else has happened.
BothAnnounced(u, n) ==
    /\ pc = [c \in Conns |-> "idle"]
    /\ hello = [c \in Conns |-> <<>>]
    /\ username = [c \in Conns |-> None]
    /\ clients = <<>>
    /\ lock = Free
    /\ bc = [c \in Conns |-> NoBroadcast]
    /\ wire = [c \in Conns |-> <<>>]
    /\ inbox = [c \in Conns |-> <<>>]
    /\ peerGone = [c \in Conns |-> FALSE]
    /\ stalled = [c \in Conns |-> FALSE]
    /\ rd = [c \in Conns |-> 0]
    /\ ident = [c \in Conns |-> None]
    /\ chatLog = [c \in Conns |-> <<>>]
    /\ nsent = 0
    /\ upc = "recv"
    /\ dgram = [addr |-> <<0, 0>>, data |-> <<>>]
    /\ usender = None
    /\ utodo = <<>>
    /\ udpOut = <<>>
    /\ ndgram = 0
    /\ mediaIn = {}
    /\ CodecIdle
    /\ incoming_files_meta =
          [f \in Filenames |-> [there |-> TRUE, sender |-> u, size |-> n, received |-> 0]]
    /\ file_chunks = [f \in Filenames |-> <<>>]
    /\ file_rows = [f \in Filenames |-> [button |-> "disabled", stale |-> FALSE]]
    /\ saved = [f \in Filenames |-> NotSaved]

\* Two senders share files under the same filename with one receiver: both
\* have announced theirs, in either order; the chunks of both reach the
\* receiver's GUI in any interleaving, a sender may announce its file again,
\* and the user clicks the download buttons that are enabled.
NextSenders ==
    \/ \E f \in Filenames : \E u \in Senders : \E n \in 1..MaxSize :
          HandleFileNotify(f, u, n)
    \/ \E f \in Filenames : \E u \in Senders : \E i \in ChunkIds : \E d \in FileOf(u) :
          HandleFileChunk(f, i, B64Encode(d))
    \/ \E f \in Filenames : ClickDownload(f)

SendersSpec ==
    (\E u \in Senders : \E n \in 1..MaxSize : BothAnnounced(u, n)) /\ [][NextSenders]_vars

(* ------------------------------------------------------------ properties *)

\* connection c has a session: registered, and not yet removed by its
\* handler's handle_disconnect
Holding(c) ==
    \/ pc[c] \in {"confirm", "loop", "udpreg", "disc"}
    \/ pc[c] \in {"start", "bcast"} /\ bc[c].cont = "loop"

\* the names candidate_1, candidate_2, ...
Suffixed(cand, k) == cand \o Underscore \o Digits(k)

Alice1 == Suffixed(Alice, 1)
Alice2 == Suffixed(Alice, 2)

\* C1: the name check and the insertion are one step under the lock: two
\* connections that have a session at the same time never hold the same
\* confirmed identity, each holds the registry entry of its identity, and
\* the identities in the registry are pairwise distinct.
DistinctIdentities ==
    /\ \A c1, c2 \in Conns :
          c1 # c2 /\ Holding(c1) /\ Holding(c2) => username[c1] # username[c2]
    /\ \A c \in Conns :
          Holding(c) => \E i \in 1..Len(clients) :
                            clients[i].name = username[c] /\ clients[i].tcp = c
    /\ \A i, j \in 1..Len(clients) : i # j => clients[i].name # clients[j].name

\* C1, its case: two connections that claimed names colliding in the
\* registry hold sessions at once, one of them under a suffixed name that
\* no peer claims as such
TwoSessionsAfterCollision ==
    \E c1, c2 \in Conns :
        /\ Holding(c1) /\ Holding(c2)
        /\ username[c1] = Alice
        /\ username[c2] = Suffixed(Alice1, 1)

\* the identity the specification of register gives: the candidate if it
\* is free, else the candidate with the smallest free suffix, found among
\* as many suffixes as the registry has keys
ConfirmedFor(d, cand) ==
    IF cand \notin Keys(d) THEN cand
    ELSE Suffixed(cand, CHOOSE k \in 1..Len(d) :
                            /\ Suffixed(cand, k) \notin Keys(d)
                            /\ \A j \in 1..(k - 1) : Suffixed(cand, j) \in Keys(d))

\* C2: every registration of a non-empty candidate succeeds with the
\* candidate itself if it is free and else with the smallest free suffix
\* on the original candidate, and adds that session to the registry;
\* "alice" gets alice, alice_1, alice_2 as those names fill up.
DeterministicSuffix ==
    [][\A c \in Conns :
          pc[c] = "reg" /\ pc'[c] = "confirm" =>
             LET cand == Strip(hello[c]) IN
             /\ username'[c] = ConfirmedFor(clients, cand)
             /\ clients' = Append(clients, Session(username'[c], c))
             /\ (cand = Alice /\ Keys(clients) = {}) => username'[c] = Alice
             /\ (cand = Alice /\ Keys(clients) = {Alice}) => username'[c] = Alice1
             /\ (cand = Alice /\ Keys(clients) = {Alice, Alice1}) => username'[c] = Alice2
      ]_vars

\* C2, its case: "alice" was registered three times with no removal
ThreeAlices ==
    /\ Len(clients) = 3
    /\ clients[1].name = Alice /\ clients[2].name = Alice1 /\ clients[3].name = Alice2

\* connection c's handler has written to every target of its broadcast of
\* kind k and still holds the lock
AtEnd(c, k) == pc[c] = "bcast" /\ bc[c].kind = k /\ bc[c].next > Len(bc[c].snap)

\* the places in what was written to connection t of the framed messages
\* of kind k whose value is v
Written(t, k, v) ==
    {i \in 1..Len(inbox[t]) :
        ~inbox[t][i].raw /\ inbox[t][i].kind = k /\ inbox[t][i].payload.val = v}

\* the (user, msg) lines of the chat frames of a sequence of reads
ChatLines(seq) ==
    LET chats == SelectSeq(seq, LAMBDA f : ~f.raw /\ f.kind = CHAT)
    IN  [i \in 1..Len(chats) |-> <<chats[i].payload.user, chats[i].payload.val>>]

\* C3: when the relay ends the broadcast of a chat frame of session A, the
\* targets were the whole registry, A included, and every target whose peer
\* is there has been written exactly one chat frame with that msg, stamped
\* with A's confirmed identity; a peer's chat log holds exactly the chat
\* frames it has read from the relay, so sending adds nothing to it.
ChatFanOut ==
    /\ \A c \in Conns :
          AtEnd(c, CHAT) =>
             /\ bc[c].snap = clients
             /\ \E i \in 1..Len(clients) : clients[i].tcp = c
             /\ bc[c].payload.user = username[c]
             /\ \A i \in 1..Len(clients) :
                   LET t == clients[i].tcp
                       at == Written(t, CHAT, bc[c].payload.val)
                   IN  ~peerGone[t] =>
                          /\ Cardinality(at) = 1
                          /\ \A j \in at : inbox[t][j].payload.user = username[c]
    /\ \A c \in Conns :
          ~peerGone[c] /\ ident[c] # None =>
             chatLog[c] = ChatLines(SubSeq(inbox[c], 2, rd[c]))

\* C3, its case: in a registry of three, a sender has read its own chat
\* message back from the relay and shows it once, and the two others have
\* been written it
ChatCameBack ==
    \E c \in Conns :
        /\ Len(clients) = 3
        /\ chatLog[c] = <<<<username[c], nsent>>>>
        /\ nsent >= 1
        /\ \A t \in Conns : Cardinality(Written(t, CHAT, nsent)) = 1

\* the framed messages of the kinds in ks, written to connection t, that
\* carry the user u
WrittenBy(t, ks, u) ==
    {i \in 1..Len(inbox[t]) :
        ~inbox[t][i].raw /\ inbox[t][i].kind \in ks /\ inbox[t][i].payload.user = u}

\* C4: when the relay ends the broadcast of a file-notify, file-chunk,
\* screen-start, screen-image or screen-stop frame of session A, the
\* targets were the registry without A, every target whose peer is there
\* has been written that frame once with user = A, whatever user the
\* payload came with, and A has not been written it; no session is ever
\* written a frame of these kinds that carries its own identity.
NonChatFanOut ==
    /\ \A c \in Conns : \A k \in RelayedKinds :
          AtEnd(c, k) =>
             /\ \E i \in 1..Len(clients) : clients[i].tcp = c
             /\ bc[c].payload.user = username[c]
             /\ \A i \in 1..Len(clients) :
                   LET t == clients[i].tcp
                       at == Written(t, k, bc[c].payload.val)
                   IN  IF t = c THEN at = {}
                       ELSE ~peerGone[t] =>
                               /\ Cardinality(at) = 1
                               /\ \A j \in at : inbox[t][j] = Frame(k, bc[c].payload)
    /\ \A c \in Conns : Holding(c) => WrittenBy(c, RelayedKinds, username[c]) = {}

\* C4, its case: in a registry of three the relay has ended the broadcast
\* of a screen-stop frame and both other sessions have been written it
OthersGotScreenStop ==
    \E c \in Conns :
        /\ AtEnd(c, SCREEN_STOP)
        /\ Len(clients) = 3
        /\ \A t \in Conns \ {c} : Cardinality(Written(t, SCREEN_STOP, nsent)) = 1

\* the relay has sent to every destination of dgram and still holds the lock
RelayAtEnd == upc = "relaying" /\ utodo = <<>>

\* the media bytes of an inbound datagram, after its 5-byte header
MediaOf(data) == SubSeq(data, 6, Len(data))

\* the datagrams the relay has sent on account of the session of connection t
SentFor(t) == {i \in 1..Len(udpOut) : udpOut[i].tcp = t}

\* C5: when the relay has gone through its destinations for a video or
\* audio datagram with payload R that it attributed to session A, every
\* other session of the registry with a media address, whose peer is
\* there, has been sent at its address one datagram of the same kind with
\* payload uint32BE(len(A)) + A + R; nothing was sent for A or for a
\* session without a media address, nor to the source address unless
\* another session holds it too; and the peers decode what was sent to
\* (sender = A, payload = R).
MediaTagging ==
    /\ RelayAtEnd =>
          LET k == dgram.data[1]
              R == MediaOf(dgram.data)
              tagged == <<k>> \o U32BE(4 + Len(usender) + Len(R))
                             \o U32BE(Len(usender)) \o usender \o R
          IN  /\ k \in {VIDEO_STREAM, AUDIO_STREAM}
              /\ usender # None
              /\ \A i \in 1..Len(clients) :
                    LET e == clients[i] IN
                    IF e.name = usender \/ e.udp_addr = None
                    THEN SentFor(e.tcp) = {}
                    ELSE /\ Cardinality(SentFor(e.tcp)) <= 1
                         /\ ~peerGone[e.tcp] => Cardinality(SentFor(e.tcp)) = 1
                         /\ \A j \in SentFor(e.tcp) :
                               udpOut[j].to = e.udp_addr /\ udpOut[j].data = tagged
              /\ \A j \in 1..Len(udpOut) :
                    /\ \E i \in 1..Len(clients) : clients[i].tcp = udpOut[j].tcp
                    /\ udpOut[j].to = dgram.addr =>
                          \E i \in 1..Len(clients) :
                              clients[i].name # usender /\ clients[i].udp_addr = dgram.addr
    /\ \A m \in mediaIn :
          m.msg = [kind |-> dgram.data[1], sender |-> usender,
                   payload |-> MediaOf(dgram.data)]

\* C5, its case: three sessions with media addresses of their own, a video
\* datagram with two bytes of media from the first, relayed to the two
\* others, who have both decoded it
RelayedToBoth ==
    /\ RelayAtEnd
    /\ Len(clients) = 3
    /\ \A i, j \in 1..3 : i # j => clients[i].udp_addr # clients[j].udp_addr
    /\ dgram.data = PackUdp(VIDEO_STREAM, <<7, 8>>)
    /\ usender = clients[1].name
    /\ Len(udpOut) = 2
    /\ Cardinality(mediaIn) = 2

\* the handler of connection c has removed its session from the registry
Removed(c) ==
    \/ pc[c] \in {"start", "bcast"} /\ bc[c].kind = USER_LEAVE
    \/ pc[c] = "done"

\* C6: when the peer of a session A has closed, its handler leaves the
\* receive loop, removes A from the registry and only then broadcasts
\* user-leave: eventually A is out of the registry and every session that
\* was in it at broadcast time, and whose peer is there, has been written
\* one user-leave frame naming A.
LeaveDone(c) ==
    /\ AtEnd(c, USER_LEAVE)
    /\ bc[c].snap = clients
    /\ bc[c].payload = Payload(username[c], 0)
    /\ \A i \in 1..Len(clients) :
          /\ clients[i].tcp # c
          /\ clients[i].name # username[c]
          /\ ~peerGone[clients[i].tcp] =>
                Cardinality(WrittenBy(clients[i].tcp, {USER_LEAVE}, username[c])) = 1

DisconnectCascade ==
    /\ \A c \in Conns : (Holding(c) /\ peerGone[c]) ~> LeaveDone(c)
    /\ [](\A c \in Conns :
             Removed(c) => \A i \in 1..Len(clients) : clients[i].tcp # c)
    /\ [](\A c, t \in Conns :
             WrittenBy(t, {USER_LEAVE}, username[c]) # {} /\ username[c] # None
                => Removed(c))

\* C7: the relay loop only ever has sessions of the registry before it:
\* no entry it is about to send to belongs to a connection whose handler
\* has removed its session.
NoRelayToRemoved ==
    \A i \in 1..Len(utodo) :
        /\ ~Removed(utodo[i].tcp)
        /\ \E j \in 1..Len(clients) : clients[j] = utodo[i]

\* C7, its case: a session has been removed, and the relay has since gone
\* through the registry and sent the datagram to the one session left
\* beside the sender
RelayAfterRemoval ==
    \E c \in Conns :
        /\ Removed(c)
        /\ RelayAtEnd
        /\ Len(clients) = 2
        /\ Len(udpOut) = 1
        /\ udpOut[1].tcp # c

\* C8: a frame whose discriminant byte is no known kind is skipped: the
\* handler that takes it off the buffer stays in its receive loop and the
\* registry is unchanged.
UnknownKindSkipped ==
    [][\A c \in Conns :
          /\ pc[c] = "loop"
          /\ wire[c] # <<>>
          /\ Head(wire[c]).kind \notin MessageType
          /\ wire'[c] = Tail(wire[c])
          => pc'[c] = "loop" /\ clients' = clients
      ]_vars

\* C9: no network send is performed with the registry lock held: a handler
\* about to write to a target of its broadcast, and the relay about to
\* send to a destination, do not hold the lock.
NoSendUnderLock ==
    /\ \A c \in Conns :
          pc[c] = "bcast" /\ bc[c].next <= Len(bc[c].snap) => lock # c
    /\ upc = "relaying" /\ utodo # <<>> => lock # UdpThread

\* C10: a peer that stops reading stalls nobody else: under fair
\* scheduling the handler of any connection that waits to register its
\* identity, or to remove its session after its peer has closed, gets to
\* do so.
SlowPeerStallsNobody ==
    \A c \in Conns :
        /\ (pc[c] = "reg") ~> (pc[c] # "reg")
        /\ (pc[c] = "disc") ~> (pc[c] # "disc")

\* the places in what was written to connection t of the framed message f
Copies(t, f) == {i \in 1..Len(inbox[t]) : inbox[t][i] = f}

\* C11: a send of broadcast_tcp that raises ends neither the loop over the
\* targets nor the caller: while a broadcast runs every target before the
\* current one has been attempted, whatever the outcome of the attempts
\* before it, and each of them whose peer is there has been written the
\* frame; the broadcast is left only after the last target, and the
\* handler then goes on where its caller continues.
FailureIsolated ==
    /\ [](\A c \in Conns :
             pc[c] = "bcast" =>
                /\ bc[c].next <= Len(bc[c].snap) + 1
                /\ Len(bc[c].out) = bc[c].next - 1
                /\ \A i \in 1..Len(bc[c].out) :
                      LET t == bc[c].snap[i].tcp IN
                      ~peerGone[t] =>
                         /\ bc[c].out[i] = "written"
                         /\ Copies(t, Frame(bc[c].kind, bc[c].payload)) # {})
    /\ [][\A c \in Conns :
             pc[c] = "bcast" /\ pc'[c] # "bcast" =>
                /\ Len(bc[c].out) = Len(bc[c].snap)
                /\ pc'[c] = bc[c].cont
         ]_vars

\* C11, its case: the send to a target raised, and a target that came
\* after it in the same broadcast of a peer's frame has been written
RaisedThenWritten ==
    \E c \in Conns : \E k \in RelayedKinds \cup {CHAT} :
        /\ AtEnd(c, k)
        /\ \E i, j \in 1..Len(bc[c].out) :
              i < j /\ bc[c].out[i] = "raised" /\ bc[c].out[j] = "written"

\* C12: on every control connection the first thing the server writes is
\* the raw confirmed identity: no framed message is written to a connection
\* before it.
IdentityFirst == \A c \in Conns : inbox[c] # <<>> => inbox[c][1].raw

\* C13: the handler of a new session calls one user-join broadcast, after
\* its registration; when it ends, the targets were the registry without
\* the new session, each a different connection, each attempted once, and
\* every target whose peer is there has been written the user-join frame
\* naming the new identity; a session is never written a user-join naming
\* its own identity.
JoinAnnounced ==
    /\ [](\A c \in Conns :
             AtEnd(c, USER_JOIN) =>
                /\ bc[c].payload = Payload(username[c], 0)
                /\ bc[c].snap = SelectSeq(clients, LAMBDA e : e.tcp # c)
                /\ Len(bc[c].out) = Len(bc[c].snap)
                /\ \A i, j \in 1..Len(bc[c].snap) :
                      i # j => bc[c].snap[i].tcp # bc[c].snap[j].tcp
                /\ \A i \in 1..Len(bc[c].snap) :
                      LET t == bc[c].snap[i].tcp IN
                      ~peerGone[t] =>
                         /\ bc[c].out[i] = "written"
                         /\ Copies(t, Frame(USER_JOIN, Payload(username[c], 0))) # {})
    /\ [](\A c \in Conns : Holding(c) => WrittenBy(c, {USER_JOIN}, username[c]) = {})
    /\ [][\A c \in Conns :
             /\ bc'[c].kind = USER_JOIN /\ bc[c].kind # USER_JOIN =>
                   pc[c] = "confirm" /\ pc'[c] = "start"
             /\ pc'[c] = "confirm" /\ pc[c] # "confirm" => pc[c] = "reg"
             /\ pc'[c] = "reg" /\ pc[c] # "reg" => pc[c] = "idle"
         ]_vars

\* C13, its case: the third session has joined a meeting of two, both have
\* been written its user-join, and it has been written its identity only
JoinedAMeetingOfTwo ==
    \E c \in Conns :
        /\ AtEnd(c, USER_JOIN)
        /\ bc[c].out = <<"written", "written">>
        /\ inbox[c] = <<RawIdentity(username[c])>>

RECURSIVE Packed(_)
\* the bytes of a sequence of frames, packed one after the other
Packed(fs) ==
    IF fs = <<>> THEN <<>>
    ELSE PackMessage(fs[1].kind, fs[1].payload) \o Packed(Tail(fs))

\* C14: a frame of any known kind and any payload, packed as the kind
\* byte, the big-endian length and the payload, is parsed by the receive
\* loop to the same kind and payload with nothing left over; and a loop
\* that has received all the bytes of one frame has taken exactly that
\* frame and has an empty buffer.
RoundTrip ==
    /\ \A i \in 1..Len(sent) :
          /\ sent[i].kind \in MessageType
          /\ ParseLoop(PackMessage(sent[i].kind, sent[i].payload), <<>>)
                = [frames |-> <<sent[i]>>, rest |-> <<>>, raised |-> FALSE]
    /\ Len(sent) = 1 /\ stream = <<>> => got = sent /\ buffer = <<>>

\* C14, its case: one screen-image frame of 256 payload bytes has gone
\* through the loop
LongFrameThrough ==
    /\ sent = <<[kind |-> SCREEN_IMAGE, payload |-> Zeros(256)]>>
    /\ stream = <<>>
    /\ got = sent

\* the bytes the loop has received so far
Received == SubSeq(Packed(sent), 1, Len(Packed(sent)) - Len(stream))

\* C15: however the bytes of well-formed frames are cut into chunks, the
\* frames the loop has taken are the frames sent, in order, as far as
\* their bytes have been received whole; a partial frame is not taken and
\* is what the buffer holds; once all bytes are received the loop has taken
\* what parsing them in one piece gives.
ResumableDecoding ==
    LET whole == ParseLoop(Packed(sent), <<>>) IN
    /\ Len(got) <= Len(sent)
    /\ got = SubSeq(sent, 1, Len(got))
    /\ Received = Packed(got) \o buffer
    /\ Len(got) < Len(sent) =>
          Len(buffer) < Len(PackMessage(sent[Len(got) + 1].kind,
                                        sent[Len(got) + 1].payload))
    /\ stream = <<>> => got = whole.frames /\ buffer = whole.rest /\ buffer = <<>>

\* C15, its case: the loop has taken the first frame and holds the first
\* bytes of the header of the second, which came in the same chunk or the
\* next
HeaderCut ==
    /\ Len(sent) = 2
    /\ Len(got) = 1
    /\ Len(buffer) \in 1..4

\* no session of the registry has the source address of dgram as its
\* media address
Unregistered == \A i \in 1..Len(clients) : clients[i].udp_addr # dgram.addr

\* C16: when the sender lookup finds no session whose media address is the
\* source address of the datagram, the relay goes back to receive: nothing
\* is sent, the registry and the lock are as they were and no control
\* connection is written to; the relay loop is entered only with a sender.
UnregisteredDropped ==
    /\ [][upc = "lookup" /\ upc' # "lookup" /\ Unregistered =>
             /\ upc' = "recv"
             /\ usender' = None
             /\ udpOut' = <<>>
             /\ UNCHANGED <<clients, lock, inbox, utodo, pc>>
         ]_vars
    /\ [](upc \in {"relay", "relaying"} => usender # None)

\* C16, its case: a video datagram came from the host of the first
\* session, which has announced no port yet, while another session has a
\* media address; the relay has looked the sender up and is back at
\* receive with nothing sent
StrangerDropped ==
    /\ upc = "recv"
    /\ ndgram >= 1
    /\ dgram.data = PackUdp(VIDEO_STREAM, <<7, 8>>)
    /\ dgram.addr[1] = ClientIp(1)
    /\ Len(clients) = NConn
    /\ clients[1].udp_addr = None
    /\ \E i \in 1..Len(clients) : clients[i].udp_addr # None
    /\ Unregistered
    /\ udpOut = <<>>

\* C17: the loss of a control connection touches its own session only: the
\* step that removes a session leaves every other entry of the registry as
\* it was, in place, and every other handler where it stood; a receive
\* loop is left only when its own peer is gone or on a frame of its own
\* connection; and the accept loop takes the next connection whatever
\* happened to the others.
LossIsLocal ==
    /\ [][\A c \in Conns :
             /\ pc[c] = "disc" /\ pc'[c] # "disc" =>
                   /\ clients' = SelectSeq(clients, LAMBDA e : e.tcp # c)
                   /\ \A d \in Conns \ {c} : pc'[d] = pc[d] /\ wire'[d] = wire[d]
             /\ pc[c] = "loop" /\ pc'[c] = "disc" =>
                   /\ \/ peerGone[c]
                      \/ wire[c] # <<>> /\ Head(wire[c]).kind \notin MessageType
                   /\ clients' = clients
                   /\ \A d \in Conns \ {c} : pc'[d] = pc[d]
         ]_vars
    /\ [](\A c \in Conns :
             pc[c] = "idle" /\ (\A b \in 1..(c - 1) : pc[b] # "idle") =>
                ENABLED Connect(c, Alice))

\* C17, its case: the first session is lost and removed, and its handler
\* has ended; the second, which has announced a media port, and the third,
\* accepted meanwhile, are in the registry and in their receive loops
OthersCarryOn ==
    /\ pc[1] = "done"
    /\ pc[2] = "loop" /\ pc[3] = "loop"
    /\ ~peerGone[2] /\ ~peerGone[3]
    /\ Len(clients) = 2
    /\ clients[1].tcp = 2 /\ clients[1].udp_addr # None
    /\ clients[2].tcp = 3

\* no two chunks of the list have the same chunk id
DistinctIds(chunks) ==
    \A i, j \in 1..Len(chunks) : i # j => chunks[i][1] # chunks[j][1]

RECURSIVE DataFrom(_, _)
\* the data of the chunks with the ids i, i + 1, ... one after the other,
\* for a list of distinct ids
DataFrom(chunks, i) ==
    IF \A j \in 1..Len(chunks) : chunks[j][1] < i THEN <<>>
    ELSE LET at == {j \in 1..Len(chunks) : chunks[j][1] = i} IN
         (IF at = {} THEN <<>> ELSE chunks[CHOOSE j \in at : TRUE][2])
         \o DataFrom(chunks, i + 1)

\* C18: whatever the order in which the file-chunk frames of a transfer
\* came, when their chunk ids are distinct the bytes download_file builds
\* are the chunk data in ascending order of chunk id.
AscendingReassembly ==
    \A f \in Filenames :
        saved[f].did = "built" /\ DistinctIds(file_chunks[f]) =>
            saved[f].data = DataFrom(file_chunks[f], 0)

\* C18, its case: the chunks came as 2, 0, 1 and the file was built as
\* data0 + data1 + data2
OutOfOrderRebuilt ==
    \E f \in Filenames :
        /\ file_chunks[f] = <<<<2, <<30>>>>, <<0, <<10>>>>, <<1, <<20, 21>>>>>>
        /\ saved[f] = [did |-> "built", data |-> <<10, 20, 21, 30>>]

\* C19: a transfer that has been announced is complete, its download
\* button enabled and download_file going on to build the file, exactly
\* when the bytes received are no fewer than the size declared, whatever
\* the size.
CompleteIffReceived ==
    \A f \in Filenames :
        incoming_files_meta[f].there /\ file_rows[f].button # "none" =>
            ((file_rows[f].button = "normal" /\ Proceeds(f))
                <=> incoming_files_meta[f].received >= incoming_files_meta[f].size)

\* the places in what was written to connection t of the frames a GUI sent
\* that are stamped with the identity u
FromUser(t, u) == WrittenBy(t, GuiKinds, u)

\* C20: a handler takes the frames of its connection off the buffer one at
\* a time from the front and broadcasts each before it takes the next, so
\* the frames of one sender are written to every receiver in the order the
\* sender sent them.
SenderOrderKept ==
    /\ [](\A t \in Conns : \A c \in Conns :
             username[c] # None =>
                \A i, j \in FromUser(t, username[c]) :
                    i < j => inbox[t][i].payload.val < inbox[t][j].payload.val)
    /\ [][\A c \in Conns :
             pc[c] = "loop" /\ wire'[c] # wire[c] /\ Len(wire'[c]) < Len(wire[c]) =>
                /\ wire'[c] = Tail(wire[c])
                /\ pc'[c] = "start"
                /\ bc'[c].kind = Head(wire[c]).kind
                /\ bc'[c].payload = Stamp(Head(wire[c]).payload, username[c])
         ]_vars

\* C20, its case: one session sent two frames one after the other and
\* another session has been written both, the first before the second
TwoInOrder ==
    \E t, c \in Conns :
        /\ t # c
        /\ username[c] # None
        /\ \E i, j \in FromUser(t, username[c]) :
              /\ i < j
              /\ inbox[t][i].payload.val = 1
              /\ inbox[t][j].payload.val = 2

\* the place of the session of connection c in the registry d, if it has one
SeatOf(d, c) == {i \in 1..Len(d) : d[i].tcp = c}

\* C21: the media address of a session is null when the session is
\* created, is first set by the udp-register branch of its own handler, and
\* once set is changed by no later step, a second udp-register with another
\* port included, for as long as the session is in the registry.
MediaAddressSetOnce ==
    [][\A c \in Conns :
          /\ SeatOf(clients, c) = {} =>
                \A j \in SeatOf(clients', c) : clients'[j].udp_addr = None
          /\ \A i \in SeatOf(clients, c) : \A j \in SeatOf(clients', c) :
                /\ clients[i].udp_addr # None =>
                      clients'[j].udp_addr = clients[i].udp_addr
                /\ clients[i].udp_addr = None /\ clients'[j].udp_addr # None =>
                      pc[c] = "udpreg"
      ]_vars

\* C22: a udp-register frame with port N, taken off the buffer of session
\* S, has exactly this effect: the media address of S becomes (the IP
\* address of S's control connection, N); every other entry of the
\* registry, and the handle and control address of S, stay as they were;
\* nothing is written to any connection, no broadcast is called, and the
\* handler is back in its receive loop.
UdpRegisterEffect ==
    [][\A c \in Conns :
          /\ pc[c] = "loop" /\ pc'[c] = "udpreg" =>
                /\ Head(wire[c]).kind = UDP_REGISTER
                /\ bc'[c].payload.val = Head(wire[c]).payload.val
                /\ clients' = clients
                /\ inbox' = inbox
          /\ pc[c] = "udpreg" /\ pc'[c] # "udpreg" =>
                /\ pc'[c] = "loop"
                /\ SeatOf(clients, c) # {}
                /\ Len(clients') = Len(clients)
                /\ \A i \in 1..Len(clients) :
                      IF clients[i].tcp = c
                      THEN clients'[i] =
                              [name |-> clients[i].name, tcp |-> c,
                               tcp_addr |-> clients[i].tcp_addr,
                               udp_addr |-> <<ClientIp(c), bc[c].payload.val>>]
                      ELSE clients'[i] = clients[i]
                /\ inbox' = inbox
                /\ lock' = lock
                /\ \A d \in Conns \ {c} : pc'[d] = pc[d] /\ bc'[d] = bc[d]
      ]_vars

\* C22, its case: in a registry of three, the second session has announced
\* port 2 and been given (its host, 2), the first holds port 1 on the same
\* host, the third has announced nothing, and the handler is back in its
\* loop with nothing written for it
SecondAnnounced ==
    /\ Len(clients) = 3
    /\ clients[1].udp_addr = <<ClientIp(1), 1>>
    /\ clients[2].udp_addr = <<ClientIp(2), 2>>
    /\ clients[3].udp_addr = None
    /\ pc[clients[2].tcp] = "loop"
    /\ \A t \in Conns : \A i \in 1..Len(inbox[t]) : inbox[t][i].kind # UDP_REGISTER

\* C23: the user of a relayed frame cannot be forged: the payload a handler
\* broadcasts for a chat, file-notify, file-chunk, screen-start,
\* screen-image or screen-stop frame is the payload that came on its own
\* connection with the user key set to the connection's confirmed
\* identity, whatever user it came with, and every frame of these kinds
\* written to any connection is the frame of the broadcast under way and
\* carries the confirmed identity of the broadcasting connection.
AttributionUnforgeable ==
    /\ [](\A c \in Conns :
             pc[c] \in {"start", "bcast"} /\ bc[c].kind \in StampedKinds =>
                username[c] # None /\ bc[c].payload.user = username[c])
    /\ [][\A c \in Conns :
             pc[c] = "loop" /\ pc'[c] = "start" =>
                /\ bc'[c].kind = Head(wire[c]).kind
                /\ bc'[c].kind \in StampedKinds
                /\ bc'[c].payload =
                      [json |-> TRUE, map |-> TRUE, user |-> username[c],
                       val |-> Head(wire[c]).payload.val]
         ]_vars
    /\ [][\A t \in Conns :
             Len(inbox'[t]) = Len(inbox[t]) + 1 =>
                LET f == inbox'[t][Len(inbox'[t])] IN
                ~f.raw /\ f.kind \in StampedKinds =>
                   \E c \in Conns :
                      /\ pc[c] = "bcast" /\ lock = c
                      /\ f = Frame(bc[c].kind, bc[c].payload)
                      /\ f.payload.user = username[c]
         ]_vars

\* C23, its case: the second session, alice_1, wrote a frame whose user key
\* names another identity of the meeting; the relay has ended its broadcast
\* and the two other sessions have been written the frame with user alice_1
ForgedButStamped ==
    \E k \in RelayedKinds :
        /\ AtEnd(2, k)
        /\ username[2] = Alice1
        /\ Len(clients) = 3
        /\ \A t \in {1, 3} : Copies(t, Frame(k, Payload(Alice1, 1))) # {}

\* the places of the chat frame with value v in what was written to t
ChatAt(t, v) == Written(t, CHAT, v)

\* C24: the relay puts the chat frames in one order: any two chat frames,
\* of one sender or of two, that have both been written to each of two
\* connections have been written to both in the same relative order.
OneChatOrder ==
    \A t1, t2 \in Conns : \A v, w \in 1..MaxSends :
        \A i1 \in ChatAt(t1, v) : \A j1 \in ChatAt(t1, w) :
        \A i2 \in ChatAt(t2, v) : \A j2 \in ChatAt(t2, w) :
            v # w => (i1 < j1 <=> i2 < j2)

\* C24, its case: two sessions have each sent a chat line, and two
\* sessions, one of the senders among them, have both been written both
TwoChatsTwoReaders ==
    \E t1, t2 \in Conns :
        /\ t1 # t2
        /\ \A t \in {t1, t2} :
              \E i \in ChatAt(t, 1) : \E j \in ChatAt(t, 2) :
                  inbox[t][i].payload.user # inbox[t][j].payload.user

\* the items of the registry a broadcast that leaves out excl is for
SnapshotOf(d, excl) == SelectSeq(d, LAMBDA e : e.name # excl)

\* C25: a broadcast works on the list of the registry taken at the one
\* moment it gets the lock: the targets are the sessions then in the
\* registry but the excluded one, each a different connection, attempted
\* once each in order up to the last; while the broadcast runs the list
\* stays as taken and no session is registered or removed, and a framed
\* message is written only to the target whose turn it is, so a connection
\* that registers or is lost meanwhile neither gains nor loses a delivery.
SnapshotConsistency ==
    /\ [](\A c \in Conns :
             pc[c] = "bcast" =>
                /\ bc[c].snap = SnapshotOf(clients, bc[c].excl)
                /\ \A i, j \in 1..Len(bc[c].snap) :
                      i # j => bc[c].snap[i].tcp # bc[c].snap[j].tcp
                /\ Len(bc[c].out) = bc[c].next - 1
                /\ bc[c].next <= Len(bc[c].snap) + 1)
    /\ [][\A c \in Conns :
             /\ pc[c] = "start" /\ pc'[c] = "bcast" =>
                   bc'[c].snap = SnapshotOf(clients, bc[c].excl) /\ bc'[c].next = 1
             /\ pc[c] = "bcast" =>
                   /\ clients' = clients
                   /\ pc'[c] = "bcast" => bc'[c].snap = bc[c].snap
                   /\ pc'[c] # "bcast" => Len(bc[c].out) = Len(bc[c].snap)
                   /\ \A t \in Conns :
                         Len(inbox'[t]) > Len(inbox[t]) =>
                            \/ /\ pc[t] = "confirm"
                               /\ inbox'[t] = Append(inbox[t], RawIdentity(username[t]))
                            \/ /\ bc[c].next <= Len(bc[c].snap)
                               /\ t = bc[c].snap[bc[c].next].tcp
                               /\ inbox'[t] = Append(inbox[t],
                                                     Frame(bc[c].kind, bc[c].payload))
                               /\ bc'[c].next = bc[c].next + 1
         ]_vars

\* C25, its case: the first session's chat broadcast has gone through its
\* list of two; meanwhile the peer of the second closed, whose handler
\* waits to remove the session and whose send was attempted all the same,
\* and the third connection, which waits to register, has been written
\* nothing
ChangesWaitForBroadcast ==
    /\ AtEnd(1, CHAT)
    /\ Len(bc[1].snap) = 2 /\ Len(bc[1].out) = 2
    /\ bc[1].out[1] = "written" /\ bc[1].out[2] \in GoneOutcomes
    /\ pc[2] = "disc"
    /\ pc[3] = "reg" /\ Strip(hello[3]) = Alice
    /\ inbox[3] = <<>>
    /\ Len(clients) = 2

\* the datagram the relay works on has a whole header and a media kind
MediaDatagram ==
    Len(dgram.data) >= 5 /\ dgram.data[1] \in {VIDEO_STREAM, AUDIO_STREAM}

\* C26: on the media socket a datagram of fewer than 5 bytes, one of a
\* known kind that is not video-stream or audio-stream, and one whose first
\* byte is no kind are dropped: nothing is sent for them, the registry, the
\* lock and the control connections are left alone, and the relay is back
\* at recvfrom, where it takes the next datagram; only a media datagram
\* with a whole header gets to the relay loop.
DroppedAndOn ==
    /\ [](upc \in {"relay", "relaying"} \/ udpOut # <<>> => MediaDatagram)
    /\ [][ndgram' = ndgram + 1
             /\ (Len(dgram'.data) < 5 \/ dgram'.data[1] \notin MessageType) =>
                /\ upc' = "recv"
                /\ udpOut' = <<>>
                /\ UNCHANGED <<clients, lock, inbox, pc>>
         ]_vars
    /\ [][upc = "lookup" /\ upc' # "lookup"
             /\ dgram.data[1] \notin {VIDEO_STREAM, AUDIO_STREAM} =>
                /\ upc' = "recv"
                /\ udpOut' = <<>>
                /\ UNCHANGED <<clients, lock, inbox, pc>>
         ]_vars
    /\ [](ndgram >= 1 /\ upc = "recv" /\ ~MediaDatagram => udpOut = <<>> /\ lock = Free)

\* C26, its case: the relay dropped the first datagram it received and has
\* relayed the second, a video datagram, to both other sessions
DroppedThenRelayed ==
    /\ ndgram = 2
    /\ RelayAtEnd
    /\ dgram.data = PackUdp(VIDEO_STREAM, <<7, 8>>)
    /\ Len(udpOut) = 2

\* the smaller of two numbers
Min(a, b) == IF a < b THEN a ELSE b

\* the length the header of the datagram declares
Declared == FromU32BE(SubSeq(dgram.data, 2, 5))

\* the first min(declared length, bytes after the header) bytes after the
\* 5-byte header of the datagram
Relayable == SubSeq(dgram.data, 6, 5 + Min(Declared, Len(dgram.data) - 5))

\* C27: the relay does not hold the declared length of a datagram against
\* the bytes that are there: a media datagram from a registered address is
\* relayed whatever length its header declares, and the media bytes sent
\* on, and decoded by the peers, are the first min(declared length,
\* datagram length - 5) bytes after the header: all there are when more are
\* declared, without the trailing ones when fewer are.
LengthNotValidated ==
    /\ [](RelayAtEnd =>
             \A j \in 1..Len(udpOut) :
                 udpOut[j].data =
                    <<dgram.data[1]>> \o U32BE(4 + Len(usender) + Len(Relayable))
                       \o U32BE(Len(usender)) \o usender \o Relayable)
    /\ [](\A m \in mediaIn : m.msg.payload = Relayable /\ m.msg.sender = usender)
    /\ [][upc = "lookup" /\ upc' # "lookup" /\ MediaDatagram /\ ~Unregistered =>
             upc' = "relay"
         ]_vars

\* C27, its case: a video datagram that declares one byte and carries two
\* was relayed to both other sessions, and a peer has decoded the first
\* byte only
TrailingByteLost ==
    /\ RelayAtEnd
    /\ dgram.data = <<VIDEO_STREAM, 0, 0, 0, 1, 7, 8>>
    /\ Len(udpOut) = 2
    /\ \E m \in mediaIn : m.msg.payload = <<7>>

\* a file of three bytes, which share_file with a chunk size of two cuts
\* into chunk 0 = <<20, 21>> and chunk 1 = <<30>>
Original == <<20, 21, 30>>

RECURSIVE Bytes(_)
\* the number of data bytes of a list of chunks
Bytes(chunks) == IF chunks = <<>> THEN 0 ELSE Len(chunks[1][2]) + Bytes(Tail(chunks))

\* C28: completion goes by the count of bytes alone: the bytes received
\* are those of all chunks handed in, copies of a chunk id included; once
\* a row is there the button is enabled whenever they reach a declared
\* size above 0, whether or not every chunk id is there and none twice;
\* and the file download_file builds has all of them, every copy of a
\* duplicate included. So a duplicated chunk can complete a transfer that
\* still misses a chunk, and the file built is not the file sent.
DuplicatesUndetected ==
    \A f \in Filenames :
        /\ incoming_files_meta[f].received = Bytes(file_chunks[f])
        /\ file_rows[f].button = "normal" =>
              incoming_files_meta[f].received >= incoming_files_meta[f].size
        /\ file_rows[f].button = "disabled" /\ file_chunks[f] # <<>> =>
              \/ incoming_files_meta[f].size = 0
              \/ incoming_files_meta[f].received < incoming_files_meta[f].size
        /\ saved[f].did = "built" =>
              /\ Len(saved[f].data) = incoming_files_meta[f].received
              /\ Len(saved[f].data) >= incoming_files_meta[f].size

\* C28, its case: of a file of three bytes announced with its size, chunk
\* 1 came three times and chunk 0 never: the bytes received reach the
\* size, the button is enabled, and the file built is not the original
DuplicateMasksMissing ==
    \E f \in Filenames :
        /\ incoming_files_meta[f].size = Len(Original)
        /\ file_chunks[f] = <<<<1, <<30>>>>, <<1, <<30>>>>, <<1, <<30>>>>>>
        /\ file_rows[f].button = "normal"
        /\ saved[f].did = "built"
        /\ Len(saved[f].data) = Len(Original)
        /\ saved[f].data # Original

\* C29: a frame with an unknown discriminant is dropped by the receive
\* loop of the peer and the loop stays alive: the loop is never left on
\* account of a frame, and once all bytes are received it has taken every
\* frame of a known kind that was sent, in order, and nothing is left in
\* its buffer.
PeerLoopRecovers ==
    /\ looping
    /\ stream = <<>> =>
          /\ got = SelectSeq(sent, LAMBDA f : f.kind \in MessageType)
          /\ buffer = <<>>

\* the payload of a frame is no JSON, or JSON that is no map
CannotProcess(f) == ~f.payload.json \/ ~f.payload.map

\* C30: a complete frame of a known kind whose payload is no JSON, or no
\* map, is taken off the buffer and skipped: no broadcast is called,
\* nothing is written, the registry and the lock are as they were and the
\* handler stays in its receive loop; and a frame taken off the buffer
\* after it is dispatched as its kind demands.
UnprocessableSkipped ==
    [][\A c \in Conns :
          pc[c] = "loop" /\ wire[c] # <<>> /\ wire'[c] = Tail(wire[c])
             /\ Head(wire[c]).kind \in MessageType =>
                LET f == Head(wire[c]) IN
                IF CannotProcess(f)
                THEN /\ pc' = pc
                     /\ bc' = bc
                     /\ clients' = clients
                     /\ inbox' = inbox
                     /\ lock' = lock
                ELSE /\ f.kind = CHAT =>
                           /\ pc'[c] = "start"
                           /\ bc'[c].kind = CHAT /\ bc'[c].excl = None
                           /\ bc'[c].payload.val = f.payload.val
                     /\ f.kind \in RelayedKinds =>
                           /\ pc'[c] = "start"
                           /\ bc'[c].kind = f.kind /\ bc'[c].excl = username[c]
                           /\ bc'[c].payload.val = f.payload.val
                     /\ f.kind = UDP_REGISTER =>
                           /\ pc'[c] = "udpreg"
                           /\ bc'[c].payload.val = f.payload.val
                     /\ f.kind \notin BranchKinds => pc' = pc /\ bc' = bc
      ]_vars

\* C30, its case: the first session wrote a frame that cannot be processed
\* and then a chat line; its handler has skipped the one and broadcast the
\* other to the three sessions, which are all in the registry
SkippedThenChat ==
    /\ AtEnd(1, CHAT)
    /\ bc[1].payload = Payload(Alice, 2)
    /\ Len(clients) = 3
    /\ \A t \in Conns : Copies(t, Frame(CHAT, Payload(Alice, 2))) # {}
    /\ \A t \in Conns : Len(inbox[t]) = 1 + (NConn - t) + 1

\* the first read of connection c gives no identity: it fails, or what it
\* returns is empty or blanks only
NoIdentity(c) ==
    \/ hello[c] = <<>>
    \/ \E i \in 1..Len(hello[c]) : hello[c][i] > 127
    \/ \A i \in 1..Len(hello[c]) : IsSpace(hello[c][i])

\* the framed messages written to connection t
FramesTo(t) == {i \in 1..Len(inbox[t]) : ~inbox[t][i].raw}

\* C31: a handshake whose first read gives no identity creates nothing: the
\* handler ends at once with the registry, every connection's inbox and
\* every broadcast as they were and no username; a handler that has no
\* username never starts a broadcast, is written nothing, and stays ended.
NoSessionWithoutIdentity ==
    /\ [][\A c \in Conns :
             pc[c] = "reg" /\ NoIdentity(c) /\ pc'[c] # "reg" =>
                /\ pc'[c] = "done"
                /\ username'[c] = None
                /\ clients' = clients
                /\ inbox' = inbox
                /\ bc' = bc
         ]_vars
    /\ [][\A c \in Conns :
             pc[c] = "done" =>
                /\ pc'[c] = "done"
                /\ bc'[c] = NoBroadcast
                /\ inbox'[c] = inbox[c]
                /\ \A i \in 1..Len(clients') : clients'[i].tcp # c
         ]_vars

\* C31, its case: between two sessions a connection whose peer wrote blanks,
\* and is still there, has ended without an identity; nothing was written
\* to it and the two sessions were told of each other only
BlankTurnedAway ==
    /\ pc[2] = "done" /\ ~peerGone[2] /\ inbox[2] = <<>>
    /\ Len(clients) = 2 /\ clients[1].tcp = 1 /\ clients[2].tcp = 3
    /\ pc[1] = "loop" /\ pc[3] = "loop"
    /\ Cardinality(FramesTo(1)) = 1 /\ FramesTo(3) = {}

\* C32: while a handler writes the user-leave frames of an identity, the
\* registry holds no session of that identity: the frame is not written to
\* a new session of the same name, nor to others while that one is
\* connected.
LeaveNamesNobody ==
    \A c \in Conns :
        pc[c] = "bcast" /\ bc[c].kind = USER_LEAVE =>
           /\ ~InDict(clients, bc[c].payload.user)
           /\ \A i \in 1..Len(bc[c].snap) : bc[c].snap[i].name # bc[c].payload.user

\* C33: while the relay sends a datagram on, the identity it tags it with
\* is that of a session of the registry whose media address is the source
\* address of the datagram.
TagOfLiveSession ==
    upc = "relaying" =>
       \E i \in 1..Len(clients) :
          clients[i].name = usender /\ clients[i].udp_addr = dgram.addr

\* C34: no two sessions of the registry hold the same media address, so
\* that the lookup by source address matches one session at most.
MediaAddressesDistinct ==
    \A i, j \in 1..Len(clients) :
        i # j /\ clients[i].udp_addr # None => clients[i].udp_addr # clients[j].udp_addr

\* C35: the identity a peer has adopted is the identity its session is
\* registered under: the handshake read returned the confirmed identity
\* and no byte of a frame written after it.
AdoptedIsRegistered ==
    \A c \in Conns : ident[c] # None /\ Holding(c) => ident[c] = username[c]

\* C36: a frame of a kind without a branch (file-request, user-join,
\* user-leave, video-stream, audio-stream) that a handler takes off its
\* connection changes nothing but the buffer: the handler stays in its loop,
\* no broadcast is called, the registry, the lock and what was written to
\* the connections are as before; so every frame of these kinds ever
\* written to a peer is a presence frame of the relay's own making.
UndispatchedInert ==
    /\ [][\A c \in Conns :
             /\ pc[c] = "loop" /\ wire[c] # <<>>
             /\ Head(wire[c]).kind \in InertKinds
             /\ wire'[c] = Tail(wire[c])
             => /\ pc'[c] = "loop"
                /\ bc' = bc
                /\ clients' = clients
                /\ lock' = lock
                /\ inbox' = inbox
         ]_vars
    /\ [](\A t \in Conns : \A i \in FramesTo(t) :
             inbox[t][i].kind \in InertKinds =>
                /\ inbox[t][i].kind \in {USER_JOIN, USER_LEAVE}
                /\ inbox[t][i].payload.val = 0)

\* C36, its case: the first frame of the meeting was of a kind without a
\* branch; its handler has taken it, nothing came of it, and the chat line
\* written after it has been broadcast to all three sessions, still in the
\* registry, their peers there
InertThenChat ==
    \E c \in Conns :
        /\ pc[c] = "bcast" /\ bc[c].kind = CHAT /\ bc[c].payload.val = 2
        /\ \A t \in Conns : wire[t] = <<>>
        /\ bc[c].next > Len(bc[c].snap)
        /\ Len(clients) = NConn
        /\ \A t \in Conns : ~peerGone[t] /\ Len(inbox[t]) = 1 + (NConn - t) + 1

\* the handler of connection c has begun the user-leave broadcast of its
\* session, or has ended
Leaving(c) == bc[c].kind = USER_LEAVE \/ pc[c] = "done"

\* the last thing written to connection t
Newest(t) == inbox'[t][Len(inbox'[t])]

\* C37: user-leave is the last control frame of a session. A handler that
\* has begun the user-leave broadcast of its session goes on with that
\* broadcast or has ended, and takes no more frames; and every chat, file or
\* screen frame that is written to a peer is written by a handler in its
\* message loop, which has not begun its user-leave, that stamped it with
\* the identity of its own session.
LeaveIsLast ==
    /\ [][\A c \in Conns :
             Leaving(c) =>
                /\ Leaving(c)'
                /\ pc'[c] \in {"start", "bcast", "done"}
                /\ wire'[c] = wire[c] \/ Len(wire'[c]) > Len(wire[c])
         ]_vars
    /\ [][\A t \in Conns :
             /\ Len(inbox'[t]) > Len(inbox[t])
             /\ ~Newest(t).raw /\ Newest(t).kind \in StampedKinds
             => \E c \in Conns :
                   /\ ~Leaving(c)
                   /\ pc[c] = "bcast" /\ bc[c].cont = "loop"
                   /\ Newest(t) = Frame(bc[c].kind, bc[c].payload)
                   /\ bc[c].payload.user = username[c]
         ]_vars

\* C37, its case: a session sent a chat line and a screen image and its
\* peer closed; the handler has written the user-leave of the session to
\* another connection, after the chat line it had written there
LeftAfterItsFrames ==
    \E c, t \in Conns :
        /\ c # t /\ nsent = 2
        /\ pc[c] = "bcast" /\ bc[c].kind = USER_LEAVE /\ bc[c].next > Len(bc[c].snap)
        /\ \E i, j \in FramesTo(t) :
              /\ i < j /\ j = Len(inbox[t])
              /\ inbox[t][i].kind \in GuiKinds /\ inbox[t][i].payload.user = username[c]
              /\ inbox[t][j] = Frame(USER_LEAVE, Payload(username[c], 0))
        /\ Cardinality(FromUser(t, username[c])) = 2

\* C38: presence events are paired. A handler calls the user-leave broadcast
\* of its session only from handle_disconnect, which it enters only from
\* its message loop, and it reaches the message loop from the confirmation
\* only through the user-join broadcast of its session: no path goes from
\* the registration to the user-leave past the user-join.
PresencePaired ==
    /\ [][\A c \in Conns :
             bc'[c].kind = USER_LEAVE /\ bc[c].kind # USER_LEAVE => pc[c] = "disc"
         ]_vars
    /\ [][\A c \in Conns :
             pc[c] = "confirm" /\ pc'[c] # "confirm" =>
                /\ pc'[c] = "start"
                /\ bc'[c] = Call(USER_JOIN, Payload(username[c], 0), username[c], "loop")
         ]_vars
    /\ [][\A c \in Conns :
             pc'[c] = "disc" /\ pc[c] # "disc" => pc[c] = "loop"
         ]_vars

\* the handler of connection c is at a with block, asking for the lock
Asking(c) ==
    \/ pc[c] \in {"start", "udpreg", "disc"}
    \/ pc[c] = "reg" /\ Decodes(hello[c]) /\ Strip(hello[c]) # <<>>

\* C39: lock discipline. The lock is held by a handler inside the loop of
\* broadcast_tcp, by the relay inside its send loop, or by nobody; a thread
\* that asks for the lock does not hold it; the end of a broadcast and of a
\* relay loop release it, whatever the sends did; and, every send
\* returning, no thread asks for the lock for ever and no holder keeps it
\* for ever.
LockDiscipline ==
    /\ [](/\ \A c \in Conns : lock = c <=> pc[c] = "bcast"
          /\ lock = UdpThread <=> upc = "relaying"
          /\ lock \in Conns \cup {UdpThread, Free}
          /\ \A c \in Conns : Asking(c) => lock # c
          /\ upc \in {"lookup", "relay"} => lock # UdpThread)
    /\ [][/\ \A c \in Conns : pc[c] = "bcast" /\ pc'[c] # "bcast" => lock' = Free
          /\ upc = "relaying" /\ upc' # "relaying" => lock' = Free
         ]_vars
    /\ \A c \in Conns : []<>(~Asking(c))
    /\ []<>(upc \notin {"lookup", "relay"})
    /\ []<>(lock = Free)

\* C39, its case: the relay is between its two critical sections and asks
\* for the lock, which a handler holds for a broadcast in which a send
\* raised, while another handler asks for it to register
ThreeAtTheLock ==
    \E c, r \in Conns :
        /\ upc = "relay"
        /\ lock = c /\ pc[c] = "bcast" /\ bc[c].out # <<>>
        /\ bc[c].out[Len(bc[c].out)] = "raised"
        /\ pc[r] = "reg" /\ Asking(r)

\* C40: transfers of two senders under one filename do not mix. Every chunk
\* the receiver keeps for a filename, and so every byte it reconstructs, is
\* a chunk of the file of the sender its metadata records; and a
\* file-notify that comes while chunks of a transfer short of its size are
\* kept leaves those chunks in place.
TransfersDoNotMix ==
    /\ [](\A f \in Filenames :
             incoming_files_meta[f].there =>
                \A i \in 1..Len(file_chunks[f]) :
                   file_chunks[f][i][2] \in FileOf(incoming_files_meta[f].sender))
    /\ [][\A f \in Filenames :
             /\ file_chunks[f] # <<>>
             /\ incoming_files_meta[f].received < incoming_files_meta[f].size
             /\ incoming_files_meta'[f].received = 0
             => \A i \in 1..Len(file_chunks[f]) :
                   \E j \in 1..Len(file_chunks'[f]) : file_chunks'[f][j] = file_chunks[f][i]
         ]_vars
====
